---------------------------- MODULE Spec2Model ----------------------------
(***************************************************************************)
(* A model of CircuitPython_SynthVoice: the linear interpolation block     *)
(* (LerpBlockInput), the attack/release envelope (AREnvelope), the Voice / *)
(* Oscillator press, release, tuning, waveform loop and filter machinery,  *)
(* the press and release of a percussive voice, and the Sample voice with  *)
(* its spectral analysis (fft, fftfreq, normalize).                        *)
(*                                                                         *)
(* Numbers.  The program computes in floating point; the model computes    *)
(* in fixed point.  Durations are whole milliseconds.  A ramp position, a  *)
(* rate and every value "between 0.0 and 1.0" is counted in units of       *)
(* 1/PhaseOne (2^-15, the weight synthio gives one step of an int16        *)
(* waveform sample), so 1/x becomes PhaseOne \div x.  Levels that a Lerp   *)
(* moves between (targets, amounts, hertz) are integers.  For the Sample,  *)
(* frequencies are whole hertz, exponents of 2 (source tune, loop tune,    *)
(* bend) are twelfths of an octave rounded down, and the clock and the     *)
(* durations measured against it are microseconds.  A waveform buffer is   *)
(* its element type, its length, the number of cycles of a sine it holds   *)
(* and its greatest sample.                                                *)
(*                                                                         *)
(* Specifications.  SpecLerp runs a LerpBlockInput on its own, SpecEnv an  *)
(* AREnvelope on its own (SpecEnvFixedAmount: without the amount setter).  *)
(* Spec runs an Oscillator voice through press, release, update and the    *)
(* loudness setters; SpecFilter runs it through the filter setters, the    *)
(* filter envelope and the filter LFO; SpecTune through its tuning.        *)
(* SpecRamp is a Lerp whose rate stays as constructed, SpecAnyVoice a      *)
(* voice of either class, an Oscillator or a percussive voice, with the   *)
(* identities of its notes and blocks.  SpecLoop assigns waveforms and     *)
(* loop regions to an Oscillator.  SpecSample assigns files, sample rates, *)
(* loop regions and tunings to a Sample, SpecSampleBuffer files, waveforms *)
(* and sample rates; SpecPlay presses, releases and updates a Sample while *)
(* the clock runs.  SpecDrum is a percussive voice on its own.  SpecClamp  *)
(* assigns the clamped parameters of an Oscillator, SpecParameters every   *)
(* parameter of a new, a pressed or a released Oscillator between blocks   *)
(* and updates, and SpecFftLength applies                                  *)
(* the length normalisation of fft() to a buffer length and a length       *)
(* parameter.  A call that raises is a step that leaves the object as      *)
(* the statements before the raise made it, and records the error as what *)
(* the call returned.  The synthio engine and ulab are outside the         *)
(* repository: an audio block is one step in which it evaluates every      *)
(* block of the object.  The variable call records the call made last, so  *)
(* that what a call returned and asked of the synthesizer can be stated.   *)
(***************************************************************************)
EXTENDS Integers, Sequences, FiniteSets, TLC

VARIABLES
    lerp,   \* a LerpBlockInput on its own
    env,    \* an AREnvelope on its own
    voice,  \* a voice (an Oscillator, a Sample or a percussive voice):
            \* its fields, its envelope, its notes
    synth,  \* the synthesizer: what the last call asked of it
    call,   \* the call made last: its name, arguments and return value
    elapsed,\* milliseconds of audio evaluated since the Lerp's target
            \* was last assigned
    now     \* time.monotonic(), in microseconds

vars == <<lerp, env, voice, synth, call, elapsed, now>>

---------------------------------------------------------------------------
(* Bounds of the model *)

\* Targets assigned to a Lerp are drawn from -MaxTarget..MaxTarget.
MaxTarget == 4
\* One audio block takes 2^BlockExp milliseconds.
BlockExp == 3
\* Durations are 0 and 1, 2, 4 .. 2^MaxDurExp audio blocks.
MaxDurExp == 2
\* An envelope's amount is drawn from {-MaxAmount, 0, MaxAmount}.
MaxAmount == 4

\* MIDI note numbers pressed are drawn from 0..MaxNote.
MaxNote == 2
\* The filter envelope's amount and the filter LFO's depth are drawn from
\* 0 and plus or minus FilterSwing hertz.
FilterSwing == 100

\* coarse_tune is drawn from -MaxCoarse..MaxCoarse octaves, fine_tune from
\* -MaxFine..MaxFine semitones.
MaxCoarse == 2
MaxFine == 12

\* The longest waveform buffer has MaxWaveLen samples.
MaxWaveLen == 8

\* The clock advances in steps of ClockStep microseconds, MaxClock times.
ClockStep == 2000
MaxClock == 8

\* The sample rate of a file recorded at another rate than the
\* synthesizer's.
SlowRate == 16000

\* The longest buffer handed to fft() and the greatest length parameter.
MaxBufferLen == 12
MaxFftLength == 9

\* The number of parameters of an Oscillator that are given another value
\* than the constructor's in one run.
MaxAssigned == 1

Targets == (-MaxTarget)..MaxTarget
Notes == 0..MaxNote
BlockMs == 2 ^ BlockExp
Durations == {0} \cup {BlockMs * 2 ^ k : k \in 0..MaxDurExp}
Amounts == {-MaxAmount, 0, MaxAmount}
\* Time since an assignment is counted up to twice the longest duration.
MaxElapsed == 2 * BlockMs * 2 ^ MaxDurExp

---------------------------------------------------------------------------
(* Helpers *)

Min(x, y) == IF x <= y THEN x ELSE y
Max(x, y) == IF x >= y THEN x ELSE y

\* One whole, in the fixed point of positions, rates and levels.
PhaseOne == 2 ^ 15

NoCall == [op |-> "init", arg |-> <<>>, ret |-> "None"]
Called(name, args, result) == [op |-> name, arg |-> args, ret |-> result]

---------------------------------------------------------------------------
(* LerpBlockInput *)

\* The two samples of the position waveform: np.linspace(-16385, 16385, 2).
WaveLo == -16385
WaveHi == 16385
\* Durations are clamped from below to 0.001 s.
MinDuration == 1
\* The default rate of a LerpBlockInput, 0.05 s.
DefaultRate == 50

\* A rate from the magnitude of the duration  (mutant of the below)
RateOf_Magnitude(duration) ==
    PhaseOne \div Max(IF duration < 0 THEN -duration ELSE duration,
                      MinDuration)

\* 1 / max(duration, 0.001): the rate handed to the position LFO.
RateOf(duration) == PhaseOne \div Max(duration, MinDuration)

\* A position LFO whose waveform is np.linspace(-16384, 16383, 2): it
\* ends just short of 1  (mutant of the below)
PositionValue_EndsShort(p) ==
    (((WaveLo + 1) * (PhaseOne - p) + (WaveHi - 2) * p) \div PhaseOne)
    + (PhaseOne \div 2)

\* The position LFO (once=True, scale=1, offset=0.5) read at accumulated
\* phase p: the waveform interpolated between its two samples, scaled by
\* 2^-15, plus the offset.  It runs from just below 0 to just above 1.
PositionValue(p) ==
    ((WaveLo * (PhaseOne - p) + WaveHi * p) \div PhaseOne) + (PhaseOne \div 2)

\* synthio.MathOperation.LERP: a * (1 - t) + b * t  (mutant of the below)
UnconstrainedLerp(a, b, t) ==
    (a * (PhaseOne - t) + b * t) \div PhaseOne

\* synthio.MathOperation.CONSTRAINED_LERP: t is first clamped to [0, 1].
ConstrainedLerp(a, b, t) ==
    LET tc == Min(Max(t, 0), PhaseOne)
    IN  (a * (PhaseOne - tc) + b * tc) \div PhaseOne

\* LerpBlockInput.__init__
LerpBlockInput_init(rate, value) ==
    [a |-> value, b |-> value, phase |-> 0, rate |-> RateOf(rate),
     out |-> value]

\* value.setter without the retrigger  (mutant of the below)
Lerp_set_value_NoRetrigger(l, value) ==
    [l EXCEPT !.a = l.out, !.b = value]

\* LerpBlockInput.value (setter)
Lerp_set_value(l, value) ==
    [l EXCEPT !.a = l.out, !.b = value, !.phase = 0]

\* LerpBlockInput.rate (setter)
Lerp_set_rate(l, value) ==
    [l EXCEPT !.rate = RateOf(value)]

\* LerpBlockInput.rate (getter)
Lerp_get_rate(l) == PhaseOne \div l.rate

\* One audio block: the engine advances the one-shot position by its rate
\* and evaluates the lerp block.
Lerp_tick(l) ==
    LET p == Min(l.phase + l.rate * BlockMs, PhaseOne)
    IN  [l EXCEPT !.phase = p,
                  !.out = ConstrainedLerp(l.a, l.b, PositionValue(p))]

---------------------------------------------------------------------------
(* AREnvelope *)

\* A constructor whose ramp rests at amount  (mutant of the below)
AREnvelope_init_AtAmount(attack_time, release_time, amount) ==
    [pressed |-> FALSE,
     lerp |-> LerpBlockInput_init(DefaultRate, amount),
     attack_time |-> attack_time,
     release_time |-> release_time,
     amount |-> amount]

\* AREnvelope.__init__
AREnvelope_init(attack_time, release_time, amount) ==
    [pressed |-> FALSE,
     lerp |-> LerpBlockInput_init(DefaultRate, 0),
     attack_time |-> attack_time,
     release_time |-> release_time,
     amount |-> amount]

\* attack_time.setter that restarts the ramp  (mutant of the below)
AREnvelope_set_attack_time_Restart(e, value) ==
    IF e.pressed
    THEN [e EXCEPT !.attack_time = value,
                   !.lerp = [Lerp_set_rate(e.lerp, value) EXCEPT !.phase = 0]]
    ELSE [e EXCEPT !.attack_time = value]

\* AREnvelope.attack_time (setter)
AREnvelope_set_attack_time(e, value) ==
    IF e.pressed
    THEN [e EXCEPT !.attack_time = value,
                   !.lerp = Lerp_set_rate(e.lerp, value)]
    ELSE [e EXCEPT !.attack_time = value]

\* AREnvelope.release_time (setter)
AREnvelope_set_release_time(e, value) ==
    IF ~e.pressed
    THEN [e EXCEPT !.release_time = value,
                   !.lerp = Lerp_set_rate(e.lerp, value)]
    ELSE [e EXCEPT !.release_time = value]

\* amount.setter that redirects the ramp in either state
\* (mutant of the below)
AREnvelope_set_amount_Always(e, value) ==
    [e EXCEPT !.amount = value,
              !.lerp = Lerp_set_value(e.lerp, value)]

\* AREnvelope.amount (setter)
AREnvelope_set_amount(e, value) ==
    IF e.pressed
    THEN [e EXCEPT !.amount = value,
                   !.lerp = Lerp_set_value(e.lerp, value)]
    ELSE [e EXCEPT !.amount = value]

\* press() that keeps the rate it finds  (mutant of the below)
AREnvelope_press_KeepRate(e) ==
    [e EXCEPT !.pressed = TRUE,
              !.lerp = Lerp_set_value(e.lerp, e.amount)]

\* AREnvelope.press
AREnvelope_press(e) ==
    [e EXCEPT !.pressed = TRUE,
              !.lerp = Lerp_set_value(Lerp_set_rate(e.lerp, e.attack_time),
                                      e.amount)]

\* release() that lets the attack finish: it ramps down from amount
\* (mutant of the below)
AREnvelope_release_FromAmount(e) ==
    [e EXCEPT !.pressed = FALSE,
              !.lerp = [Lerp_set_rate(e.lerp, e.release_time)
                            EXCEPT !.a = e.amount, !.b = 0, !.phase = 0]]

\* AREnvelope.release
AREnvelope_release(e) ==
    [e EXCEPT !.pressed = FALSE,
              !.lerp = Lerp_set_value(Lerp_set_rate(e.lerp, e.release_time),
                                      0)]

\* One audio block evaluated by the engine.
AREnvelope_tick(e) == [e EXCEPT !.lerp = Lerp_tick(e.lerp)]

---------------------------------------------------------------------------
(* Voice and Oscillator *)

\* FilterType
LOWPASS == 0
HIGHPASS == 1
BANDPASS == 2

\* synthesizer.sample_rate, in hertz.
SampleRate == 44100
Nyquist == SampleRate \div 2
\* The least resonance, 0.7071067811865475, in units of 1/PhaseOne.
MinResonance == 23170
\* A high-pass filter at or below this frequency is bypassed.
HighPassBypass == 50
\* The floor of an Oscillator's effective filter frequency.
MinFilterFrequency == 50
\* The divisor of an integer (MIDI) velocity.
MidiVelocityMax == 127
\* The root frequency of an Oscillator, in hertz.
Root == 440

NoFilter == [kind |-> "None", frequency |-> 0, Q |-> 0]
Biquad(kind, frequency, Q) == [kind |-> kind, frequency |-> frequency, Q |-> Q]

\* What a method did: the voice it leaves, what it returned ("True",
\* "False" or "None"), what it asked of the synthesizer, and the calls it
\* made on the synthesizer and on the voice's own parts, in their order.
Outcome(v, ret, presses, releases, biquads, assigns) ==
    [voice |-> v, ret |-> ret, presses |-> presses, releases |-> releases,
     biquads |-> biquads, assigns |-> assigns,
     log |-> (IF releases > 0 THEN <<"synthesizer.release">> ELSE <<>>)
             \o (IF presses > 0 THEN <<"synthesizer.press">> ELSE <<>>)]

\* _get_velocity_mod that takes the velocity as stored
\* (mutant of the below)
Voice_get_velocity_mod_Unclamped(v) ==
    PhaseOne - ((PhaseOne - v.velocity) * v.velocity_amount) \div PhaseOne

\* Voice._get_velocity_mod
Voice_get_velocity_mod(v) ==
    PhaseOne
    - ((PhaseOne - Min(Max(v.velocity, 0), PhaseOne)) * v.velocity_amount)
          \div PhaseOne

\* _update_envelope that builds a new Note around the envelope
\* (mutant of the below)
Oscillator_update_envelope_NewNote(v) ==
    LET mod == Voice_get_velocity_mod(v)
    IN  [v EXCEPT !.refs.note = @ + 1,
                  !.note.envelope =
            [attack_time |-> v.attack_time,
             attack_level |-> (mod * v.attack_level) \div PhaseOne,
             decay_time |-> v.decay_time,
             sustain_level |-> (mod * v.sustain_level) \div PhaseOne,
             release_time |-> v.release_time]]

\* Oscillator._update_envelope
Oscillator_update_envelope(v) ==
    LET mod == Voice_get_velocity_mod(v)
    IN  [v EXCEPT !.note.envelope =
            [attack_time |-> v.attack_time,
             attack_level |-> (mod * v.attack_level) \div PhaseOne,
             decay_time |-> v.decay_time,
             sustain_level |-> (mod * v.sustain_level) \div PhaseOne,
             release_time |-> v.release_time]]

\* A waveform buffer as the voice sees it: whether there is one (None
\* otherwise), its element type, its length in samples, the number of
\* whole cycles of a sine it holds and its greatest sample.
Waveform(dtype, len, cycles, peak) ==
    [present |-> TRUE, dtype |-> dtype, len |-> len, cycles |-> cycles,
     peak |-> peak]

\* waveform=None
NoWaveform ==
    [present |-> FALSE, dtype |-> "none", len |-> 0, cycles |-> 0,
     peak |-> 0]

\* synthio.Note's waveform_loop_end before anything is assigned to it
NoteLoopEnd == 16384

\* Voice.__init__ and Oscillator.__init__ (root = 440.0).  refs holds the
\* identity of each object the constructor creates (a LerpBlockInput is
\* its position LFO and its lerp block), in the order of creation.
Oscillator_init ==
    Oscillator_update_envelope(
        [class |-> "Oscillator",
         refs |-> [filter_envelope |-> <<1, 2>>, filter_lfo |-> 3,
                   freq_lerp |-> <<4, 5>>, pitch_lerp |-> <<6, 7>>,
                   amplitude |-> 8, vibrato |-> 9, bend |-> 10,
                   panning |-> 11, note |-> 12],
         notenum |-> -1,
         velocity |-> 0,
         filter_type |-> LOWPASS,
         filter_frequency |-> Nyquist,
         filter_resonance |-> MinResonance,
         filter_buffer |-> <<-1, 0, 0>>,
         velocity_amount |-> PhaseOne,
         filter_envelope |-> AREnvelope_init(0, 0, 0),
         filter_lfo |-> [rate |-> PhaseOne, scale |-> 0, value |-> 0],
         root |-> Root,
         coarse_tune |-> 0,
         fine_tune |-> 0,
         bend_range |-> 0,
         bend |-> 0,
         freq_lerp |-> LerpBlockInput_init(0, 0),
         pitch_lerp |-> LerpBlockInput_init(0, 0),
         attack_time |-> 0,
         attack_level |-> PhaseOne,
         decay_time |-> 0,
         sustain_level |-> (3 * PhaseOne) \div 4,
         release_time |-> 0,
         waveform_loop |-> <<0, PhaseOne>>,
         note |-> [frequency |-> Root, envelope |-> <<>>,
                   filter |-> NoFilter,
                   amplitude |-> [rate |-> PhaseOne, scale |-> 0,
                                  offset |-> PhaseOne],
                   vibrato |-> [rate |-> PhaseOne, scale |-> 0,
                                offset |-> 0],
                   panning |-> [rate |-> PhaseOne, scale |-> 0,
                                offset |-> 0],
                   waveform |-> NoWaveform,
                   waveform_loop_start |-> 0,
                   waveform_loop_end |-> NoteLoopEnd]])

\* Oscillator.notes
Oscillator_notes(v) == <<v.refs.note>>

\* Oscillator.blocks
Oscillator_blocks(v) ==
    v.refs.filter_envelope \o v.refs.freq_lerp \o v.refs.pitch_lerp
    \o <<v.refs.filter_lfo, v.refs.amplitude, v.refs.bend, v.refs.panning>>

\* Voice.pressed
Voice_pressed(v) == v.notenum > 0

\* The velocity argument as press() stores it: an int is divided by 127.
StoredVelocity(velocity) ==
    IF velocity.int
    THEN (velocity.v * PhaseOne) \div MidiVelocityMax
    ELSE velocity.v

\* press() that updates the envelope only for a new note
\* (mutant of the below)
Voice_press_EnvelopeAfterCheck(v, notenum, velocity) ==
    IF notenum = v.notenum
    THEN Outcome([v EXCEPT !.velocity = StoredVelocity(velocity)],
                 "False", 0, 0, 0, 0)
    ELSE Outcome(Oscillator_update_envelope(
                     [v EXCEPT !.velocity = StoredVelocity(velocity),
                               !.notenum = notenum]),
                 "True", 1, 0, 0, 0)

\* Voice.press
Voice_press(v, notenum, velocity) ==
    LET v1 == Oscillator_update_envelope(
                  [v EXCEPT !.velocity = StoredVelocity(velocity)])
    IN  IF notenum = v1.notenum
        THEN Outcome(v1, "False", 0, 0, 0, 0)
        ELSE Outcome([v1 EXCEPT !.notenum = notenum], "True", 1, 0, 0, 0)

\* release() that does not look at the pressed state (mutant of the below)
Voice_release_Unguarded(v) ==
    Outcome([v EXCEPT !.notenum = 0], "True", 0, 1, 0, 0)

\* Voice.release
Voice_release(v) ==
    IF ~Voice_pressed(v)
    THEN Outcome(v, "False", 0, 0, 0, 0)
    ELSE Outcome([v EXCEPT !.notenum = 0], "True", 0, 1, 0, 0)

\* log2(synthio.midi_to_hz(notenum) / root) for root = 440 Hz, in
\* semitones (twelfths of an octave): MIDI note 69 is 440 Hz.
GlideTarget(notenum) == notenum - 69

\* press() that sets the glide target and presses the filter envelope
\* whatever the base press returned  (mutant of the below)
Oscillator_press_Always(v, notenum, velocity) ==
    LET o == Voice_press(v, notenum, velocity)
        v1 == [o.voice EXCEPT
                  !.freq_lerp = Lerp_set_value(@, GlideTarget(notenum))]
        v2 == [v1 EXCEPT !.filter_envelope = AREnvelope_press(@)]
    IN  [o EXCEPT !.voice = v2,
                  !.log = @ \o <<"frequency", "filter_envelope.press">>]

\* Oscillator.press
Oscillator_press(v, notenum, velocity) ==
    LET o == Voice_press(v, notenum, velocity)
        v1 == [o.voice EXCEPT
                  !.freq_lerp = Lerp_set_value(@, GlideTarget(notenum))]
        v2 == [v1 EXCEPT !.filter_envelope = AREnvelope_press(@)]
    IN  IF o.ret = "False"
        THEN o
        ELSE [o EXCEPT !.voice = v2,
                       !.log = @ \o <<"frequency", "filter_envelope.press">>]

\* Oscillator.release
Oscillator_release(v) ==
    LET o == Voice_release(v)
    IN  IF o.ret = "False"
        THEN o
        ELSE [o EXCEPT !.voice =
                 [o.voice EXCEPT !.filter_envelope = AREnvelope_release(@)],
                       !.log = @ \o <<"filter_envelope.release">>]

\* pow(2, k / 12) for k = 0 .. 11, in units of 1/PhaseOne.
SemitoneRatio ==
    <<32768, 34716, 36781, 38968, 41285, 43740,
      46341, 49097, 52016, 55109, 58386, 61858>>

\* root * pow(2, coarse_tune + fine_tune / 12), in hertz, for a
\* coarse_tune in whole octaves and a fine_tune in whole semitones: the
\* twelfths of the exponent select the ratio, its whole part the power
\* of two.
TunedFrequency(root, coarse_tune, fine_tune) ==
    LET e == 12 * coarse_tune + fine_tune
        octave == e \div 12
        ratio == SemitoneRatio[(e % 12) + 1]
    IN  IF octave >= 0
        THEN (root * ratio * 2 ^ octave) \div PhaseOne
        ELSE (root * ratio) \div (PhaseOne * 2 ^ (-octave))

\* Oscillator._update_root
Oscillator_update_root(v) ==
    [v EXCEPT !.note.frequency =
        TunedFrequency(v.root, v.coarse_tune, v.fine_tune)]

\* Oscillator.coarse_tune (setter)
Oscillator_set_coarse_tune(v, value) ==
    Oscillator_update_root([v EXCEPT !.coarse_tune = value])

\* fine_tune.setter that stores the value and leaves the note as it is
\* (mutant of the below)
Oscillator_set_fine_tune_NoUpdate(v, value) ==
    [v EXCEPT !.fine_tune = value]

\* Oscillator.fine_tune (setter)
Oscillator_set_fine_tune(v, value) ==
    Oscillator_update_root([v EXCEPT !.fine_tune = value])

\* _apply_waveform_loop without the window of two samples: the end index
\* is only kept at or after the start index
\* (mutant of the below)
Oscillator_apply_waveform_loop_NoWindow(v) ==
    IF v.note.waveform.present /\ v.note.waveform.len >= 2
    THEN LET waveform_length == v.note.waveform.len
             loop_start ==
                 Min(Max((v.waveform_loop[1] * waveform_length)
                             \div PhaseOne, 0),
                     waveform_length - 2)
             loop_end ==
                 Min(Max((v.waveform_loop[2] * waveform_length)
                             \div PhaseOne, loop_start),
                     waveform_length)
         IN  [v EXCEPT !.note.waveform_loop_start = loop_start,
                       !.note.waveform_loop_end = loop_end]
    ELSE v

\* Oscillator._apply_waveform_loop.  int() of a fraction in [0, 1] times
\* the length is the whole part of the product.
Oscillator_apply_waveform_loop(v) ==
    IF v.note.waveform.present /\ v.note.waveform.len >= 2
    THEN LET waveform_length == v.note.waveform.len
             loop_start ==
                 Min(Max((v.waveform_loop[1] * waveform_length)
                             \div PhaseOne, 0),
                     waveform_length - 2)
             loop_end ==
                 Min(Max((v.waveform_loop[2] * waveform_length)
                             \div PhaseOne, loop_start + 2),
                     waveform_length)
         IN  [v EXCEPT !.note.waveform_loop_start = loop_start,
                       !.note.waveform_loop_end = loop_end]
    ELSE v

\* Oscillator.waveform (setter)
Oscillator_set_waveform(v, value) ==
    Oscillator_apply_waveform_loop([v EXCEPT !.note.waveform = value])

\* Oscillator._set_waveform_loop
Oscillator_set_waveform_loop_(v, value) ==
    LET start == Min(Max(value[1], 0), PhaseOne)
        end == Min(Max(value[2], start), PhaseOne)
    IN  Oscillator_apply_waveform_loop(
            [v EXCEPT !.waveform_loop = <<start, end>>])

\* Oscillator.waveform_loop (setter)
Oscillator_set_waveform_loop(v, value) ==
    Oscillator_set_waveform_loop_(v, value)

\* Oscillator._get_filter_frequency
Oscillator_get_filter_frequency(v) ==
    Max(v.filter_frequency + v.filter_envelope.lerp.out + v.filter_lfo.value,
        MinFilterFrequency)

\* The choice of filter with no high-pass bypass (mutant of the below)
FilterFor_NoHighPassBypass(current) ==
    IF current[1] = LOWPASS
    THEN IF current[2] >= Nyquist
         THEN NoFilter
         ELSE Biquad("low_pass", current[2], current[3])
    ELSE IF current[1] = HIGHPASS
    THEN Biquad("high_pass", current[2], current[3])
    ELSE Biquad("band_pass", current[2], current[3])

\* The filter _update_filter gives the notes for the tuple `current`.
FilterFor(current) ==
    IF current[1] = LOWPASS
    THEN IF current[2] >= Nyquist
         THEN NoFilter
         ELSE Biquad("low_pass", current[2], current[3])
    ELSE IF current[1] = HIGHPASS
    THEN IF current[2] <= HighPassBypass
         THEN NoFilter
         ELSE Biquad("high_pass", current[2], current[3])
    ELSE Biquad("band_pass", current[2], current[3])

\* _update_filter that rebuilds on every call (mutant of the below)
Voice_update_filter_Always(v) ==
    LET current == <<v.filter_type, Oscillator_get_filter_frequency(v),
                     v.filter_resonance>>
        biquad == FilterFor(current)
    IN  Outcome([v EXCEPT !.filter_buffer = current,
                          !.note.filter = biquad],
                "None", 0, 0,
                IF biquad = NoFilter THEN 0 ELSE 1, 1)

\* Voice._update_filter (an Oscillator has one note)
Voice_update_filter(v) ==
    LET current == <<v.filter_type, Oscillator_get_filter_frequency(v),
                     v.filter_resonance>>
        biquad == FilterFor(current)
    IN  IF v.filter_buffer # current
        THEN Outcome([v EXCEPT !.filter_buffer = current,
                               !.note.filter = biquad],
                     "None", 0, 0,
                     IF biquad = NoFilter THEN 0 ELSE 1, 1)
        ELSE Outcome(v, "None", 0, 0, 0, 0)

\* Voice.filter_type (setter)
Voice_set_filter_type(v, value) ==
    Voice_update_filter([v EXCEPT !.filter_type = value])

\* Voice.filter_frequency (setter)
Voice_set_filter_frequency(v, value) ==
    Voice_update_filter(
        [v EXCEPT !.filter_frequency = Min(Max(value, 0), Nyquist)])

\* Voice.filter_resonance (setter)
Voice_set_filter_resonance(v, value) ==
    Voice_update_filter(
        [v EXCEPT !.filter_resonance = Max(value, MinResonance)])

\* velocity_amount.setter that stores the value as given
\* (mutant of the below)
Voice_set_velocity_amount_Unclamped(v, value) ==
    [v EXCEPT !.velocity_amount = value]

\* Voice.velocity_amount (setter)
Voice_set_velocity_amount(v, value) ==
    [v EXCEPT !.velocity_amount = Min(Max(value, 0), PhaseOne)]

\* Oscillator.attack_level (setter)
Oscillator_set_attack_level(v, value) ==
    Oscillator_update_envelope(
        [v EXCEPT !.attack_level = Min(Max(value, 0), PhaseOne)])

\* Oscillator.attack_time (setter)
Oscillator_set_attack_time(v, value) ==
    Oscillator_update_envelope([v EXCEPT !.attack_time = Max(value, 0)])

\* decay_time.setter that stores the value as given
\* (mutant of the below)
Oscillator_set_decay_time_Unclamped(v, value) ==
    Oscillator_update_envelope([v EXCEPT !.decay_time = value])

\* Oscillator.decay_time (setter)
Oscillator_set_decay_time(v, value) ==
    Oscillator_update_envelope([v EXCEPT !.decay_time = Max(value, 0)])

\* Oscillator.sustain_level (setter)
Oscillator_set_sustain_level(v, value) ==
    Oscillator_update_envelope(
        [v EXCEPT !.sustain_level = Min(Max(value, 0), PhaseOne)])

\* Oscillator.release_time (setter)
Oscillator_set_release_time(v, value) ==
    Oscillator_update_envelope([v EXCEPT !.release_time = Max(value, 0)])

\* Oscillator.filter_amount (setter)
Oscillator_set_filter_amount(v, value) ==
    [v EXCEPT !.filter_envelope = AREnvelope_set_amount(@, value)]

\* Oscillator.filter_depth (setter)
Oscillator_set_filter_depth(v, value) ==
    [v EXCEPT !.filter_lfo.scale = value]

\* Oscillator.glide (setter), a duration in ms
Oscillator_set_glide(v, value) ==
    [v EXCEPT !.freq_lerp = Lerp_set_rate(@, value)]

\* Oscillator._update_pitch_bend: bend is a fraction of bend_range, which
\* is in twelfths of an octave.
Oscillator_update_pitch_bend(v) ==
    [v EXCEPT !.pitch_lerp =
        Lerp_set_value(@, (v.bend * v.bend_range) \div PhaseOne)]

\* Oscillator.bend_range (setter)
Oscillator_set_bend_range(v, value) ==
    Oscillator_update_pitch_bend([v EXCEPT !.bend_range = value])

\* Oscillator.bend (setter)
Oscillator_set_bend(v, value) ==
    Oscillator_update_pitch_bend([v EXCEPT !.bend = value])

\* Oscillator.vibrato_rate (setter)
Oscillator_set_vibrato_rate(v, value) ==
    [v EXCEPT !.note.vibrato.rate = value]

\* Oscillator.vibrato_depth (setter)
Oscillator_set_vibrato_depth(v, value) ==
    [v EXCEPT !.note.vibrato.scale = value]

\* Oscillator.amplitude (setter)
Oscillator_set_amplitude(v, value) ==
    [v EXCEPT !.note.amplitude.offset = value]

\* Oscillator.tremolo_rate (setter)
Oscillator_set_tremolo_rate(v, value) ==
    [v EXCEPT !.note.amplitude.rate = value]

\* Oscillator.tremolo_depth (setter)
Oscillator_set_tremolo_depth(v, value) ==
    [v EXCEPT !.note.amplitude.scale = value]

\* Oscillator.pan (setter)
Oscillator_set_pan(v, value) ==
    [v EXCEPT !.note.panning.offset = value]

\* Oscillator.pan_rate (setter)
Oscillator_set_pan_rate(v, value) ==
    [v EXCEPT !.note.panning.rate = value]

\* Oscillator.pan_depth (setter)
Oscillator_set_pan_depth(v, value) ==
    [v EXCEPT !.note.panning.scale = value]

\* Oscillator.filter_attack_time (setter)
Oscillator_set_filter_attack_time(v, value) ==
    [v EXCEPT !.filter_envelope = AREnvelope_set_attack_time(@, value)]

\* Oscillator.filter_release_time (setter)
Oscillator_set_filter_release_time(v, value) ==
    [v EXCEPT !.filter_envelope = AREnvelope_set_release_time(@, value)]

\* Oscillator.filter_rate (setter)
Oscillator_set_filter_rate(v, value) ==
    [v EXCEPT !.filter_lfo.rate = value]

\* update() that also rebuilds the loudness envelope
\* (mutant of the below)
Oscillator_update_WithEnvelope(v) ==
    Voice_update_filter(Oscillator_update_envelope(v))

\* Oscillator.update
Oscillator_update(v) == Voice_update_filter(v)

\* One audio block: the engine evaluates every block of the voice; the
\* filter LFO (offset 0) lands somewhere within its scale.
Oscillator_tick(v, lfo_value) ==
    [v EXCEPT !.filter_envelope = AREnvelope_tick(@),
              !.freq_lerp = Lerp_tick(@),
              !.filter_lfo.value = lfo_value]

\* The same block with the ramp of the pitch bend, which rests at 0 until
\* bend and bend_range are assigned.
Oscillator_tick_bend(v, lfo_value) ==
    [Oscillator_tick(v, lfo_value) EXCEPT !.pitch_lerp = Lerp_tick(@)]

LfoValues(scale) == {-scale, 0, scale}

\* The synthesizer: whether it is playing the voice's notes, and what the
\* last call asked of it (press, release, filter constructions, and
\* assignments of note.filter) and did, step by step (log).
NoRequests ==
    [playing |-> FALSE, presses |-> 0, releases |-> 0, biquads |-> 0,
     assigns |-> 0, log |-> <<>>]

\* A call that asked nothing of the synthesizer.
Quiet ==
    [presses |-> 0, releases |-> 0, biquads |-> 0, assigns |-> 0,
     log |-> <<>>]

Requests(o) ==
    [playing |-> IF o.presses > 0 THEN TRUE
                 ELSE IF o.releases > 0 THEN FALSE
                 ELSE synth.playing,
     presses |-> o.presses, releases |-> o.releases, biquads |-> o.biquads,
     assigns |-> o.assigns, log |-> o.log]

---------------------------------------------------------------------------
(* percussive.Voice *)

\* The number of notes of a percussive voice.
DrumCount == 3
\* Its filter frequency, in hertz.
DrumFilterFrequency == 20000
\* The decay time of its notes, in milliseconds.
DrumDecayTime == 1000
\* The rate of its pitch LFO, in hertz.
DrumLfoRate == 20

\* percussive.Voice._update_envelope
Percussive_update_envelope(d) ==
    LET mod == Voice_get_velocity_mod(d)
    IN  [d EXCEPT !.notes =
            [i \in 1..Len(d.notes) |->
                [d.notes[i] EXCEPT !.envelope =
                    [attack_time |-> 0,
                     decay_time |-> d.times[((i - 1) % Len(d.times)) + 1],
                     release_time |-> 0,
                     attack_level |-> (mod * d.attack_level) \div PhaseOne,
                     sustain_level |-> 0]]]]

\* Voice.__init__ and percussive.Voice.__init__ with the default
\* arguments: the state once the times and filter setters of the
\* constructor have run (a low-pass filter at 20000 Hz on every note).
Percussive_init ==
    Percussive_update_envelope(
        [class |-> "Percussive",
         refs |-> [lfo |-> 1, notes |-> [i \in 1..DrumCount |-> 1 + i]],
         notenum |-> -1,
         velocity |-> 0,
         filter_type |-> LOWPASS,
         filter_frequency |-> DrumFilterFrequency,
         filter_resonance |-> MinResonance,
         filter_buffer |-> <<LOWPASS, DrumFilterFrequency, MinResonance>>,
         velocity_amount |-> PhaseOne,
         times |-> <<DrumDecayTime>>,
         attack_level |-> PhaseOne,
         lfo |-> [phase |-> 0],
         notes |-> [i \in 1..DrumCount |->
                       [envelope |-> <<>>,
                        filter |-> Biquad("low_pass", DrumFilterFrequency,
                                          MinResonance)]]])

\* percussive.Voice.notes
Percussive_notes(d) == d.refs.notes

\* percussive.Voice.blocks
Percussive_blocks(d) == <<d.refs.lfo>>

\* press() that starts the notes without stopping them first
\* (mutant of the below)
Percussive_press_NoRelease(d, velocity) ==
    LET v1 == Percussive_update_envelope(
                  [d EXCEPT !.velocity = StoredVelocity(velocity)])
        same == (1 = v1.notenum)
        v2 == IF same THEN v1 ELSE [v1 EXCEPT !.notenum = 1]
    IN  Outcome([v2 EXCEPT !.lfo.phase = 0], "True",
                IF same THEN 0 ELSE 1, 0, 0, 0)

\* percussive.Voice.press: the base release(), the base press(1, velocity)
\* with this class's _update_envelope, then the LFO is retriggered.
Percussive_press(d, velocity) ==
    LET r == Voice_release(d)
        v1 == Percussive_update_envelope(
                  [r.voice EXCEPT !.velocity = StoredVelocity(velocity)])
        same == (1 = v1.notenum)
        v2 == IF same THEN v1 ELSE [v1 EXCEPT !.notenum = 1]
    IN  Outcome([v2 EXCEPT !.lfo.phase = 0], "True",
                IF same THEN 0 ELSE 1, r.releases, 0, 0)

\* percussive.Voice.release
Percussive_release(d) == Outcome(d, "False", 0, 0, 0, 0)

\* percussive.Voice.attack_level (setter)
Percussive_set_attack_level(d, value) ==
    Percussive_update_envelope([d EXCEPT !.attack_level = value])

\* One audio block: the engine advances the one-shot pitch LFO.
Percussive_tick(d) ==
    [d EXCEPT !.lfo.phase =
        Min(@ + (DrumLfoRate * BlockMs * PhaseOne) \div 1000, PhaseOne)]

\* The notes and blocks properties, by the class of the voice.
Voice_notes(v) ==
    IF v.class = "Percussive" THEN Percussive_notes(v) ELSE Oscillator_notes(v)

Voice_blocks(v) ==
    IF v.class = "Percussive" THEN Percussive_blocks(v)
    ELSE Oscillator_blocks(v)

---------------------------------------------------------------------------
(* sample.py: spectral analysis *)

\* What a function hands back: a value, None, or an error it raised.
Returned(x) == [err |-> "", none |-> FALSE, value |-> x]
ReturnedNone == [err |-> "", none |-> TRUE, value |-> 0]
Raised(e) == [err |-> e, none |-> FALSE, value |-> 0]

\* The default of fft()'s length parameter.
FftLength == 1024

RECURSIVE IsPowerOfTwo(_)
IsPowerOfTwo(n) ==
    IF n <= 1 THEN n = 1
    ELSE n % 2 = 0 /\ IsPowerOfTwo(n \div 2)

\* is_pow2: whether log(value) / log(2) is a whole number.
is_pow2(value) == IsPowerOfTwo(value)

\* The loop of fft(): j starts at 2 and is doubled until it exceeds the
\* length; DoubleUntilAbove(4, n) is the j it stops at.
RECURSIVE DoubleUntilAbove(_, _)
DoubleUntilAbove(j, n) ==
    IF j > n THEN j ELSE DoubleUntilAbove(2 * j, n)

\* The length of data[offset : len(data) - offset] for
\* offset = (len(data) - length) // 2, taken when len(data) > length.
TrimmedLength(len, length) ==
    IF len > length
    THEN len - 2 * ((len - length) \div 2)
    ELSE len

\* The length of the buffer fft() hands to the spectrum routine, for a
\* buffer of at least 2 samples: the buffer as trimmed, cut to j // 2
\* samples when its length is not a power of two.
AnalysedLength(len, length) ==
    LET n == TrimmedLength(len, length)
    IN  IF is_pow2(n) THEN n
        ELSE Min(n, DoubleUntilAbove(4, n) \div 2)

\* ulab.utils.spectrogram of the first n samples of a buffer holding
\* whole cycles of a sine: n magnitudes, bin 0 first, zero but for the
\* peak at the bin of the sine's frequency and at its mirror.
PeakBin(w, n) == (2 * w.cycles * n + w.len) \div (2 * w.len)

Spectrogram(w, n) ==
    [b \in 1..n |->
        IF b - 1 \in {PeakBin(w, n), n - PeakBin(w, n)} THEN w.peak ELSE 0]

\* np.argmax: the index (from 0) of the first greatest element.
ArgMax(data) ==
    (CHOOSE i \in 1..Len(data) :
        /\ \A j \in 1..Len(data) : data[j] <= data[i]
        /\ \A j \in 1..(i - 1) : data[j] < data[i]) - 1

\* fft(data, log, length): the spectrum handed back is
\* spectrogram(data)[1 : len // 2 - 1].  (log only rescales it.)
fft(data, length) ==
    IF data.dtype \notin {"int16", "uint16"}
    THEN Raised("Invalid data type")
    ELSE IF TrimmedLength(data.len, length) < 2
    THEN ReturnedNone
    ELSE LET n == AnalysedLength(data.len, length)
         IN  Returned(SubSeq(Spectrogram(data, n), 2, (n \div 2) - 1))

\* fftfreq: argmax(data) / len(data) * sample_rate / 4, in whole hertz.
\* argmax of None and of an empty spectrum raise.
fftfreq(data, sample_rate) ==
    LET r == fft(data, FftLength)
    IN  IF r.err # "" THEN r
        ELSE IF r.none THEN Raised("TypeError")
        ELSE IF Len(r.value) = 0 THEN Raised("empty sequence")
        ELSE Returned((ArgMax(r.value) * sample_rate)
                          \div (4 * Len(r.value)))

\* The greatest level an int16 sample takes.
Int16Max == 32767

\* normalize: a buffer whose greatest sample is below 32767 is scaled so
\* that its greatest sample is 32767.
normalize(data) ==
    IF data.dtype # "int16"
    THEN Raised("Invalid data type")
    ELSE IF data.peak < Int16Max
    THEN Returned([data EXCEPT !.peak = Int16Max])
    ELSE Returned(data)

---------------------------------------------------------------------------
(* sample.py: the Sample voice *)

\* x * pow(2, e / 12) for an exponent e in twelfths of an octave.
Pow2Scale(x, e) ==
    LET octave == e \div 12
        scaled == (x * SemitoneRatio[(e % 12) + 1]) \div PhaseOne
    IN  IF octave >= 0
        THEN scaled * 2 ^ octave
        ELSE scaled \div 2 ^ (-octave)

\* floor(log2(num / den)) for positive num and den.
RECURSIVE Log2Floor(_, _)
Log2Floor(num, den) ==
    IF num >= 2 * den THEN 1 + Log2Floor(num, 2 * den)
    ELSE IF num < den THEN Log2Floor(2 * num, den) - 1
    ELSE 0

\* math.log(num / den) / _LOG_2 in twelfths of an octave, rounded down:
\* the whole octaves, and the greatest twelfth whose ratio fits in what
\* is left.
Log2Twelfths(num, den) ==
    LET octave == Log2Floor(num, den)
        n == IF octave < 0 THEN num * 2 ^ (-octave) ELSE num
        d == IF octave > 0 THEN den * 2 ^ octave ELSE den
        twelfth == CHOOSE k \in 0..11 :
                       /\ SemitoneRatio[k + 1] * d <= n * PhaseOne
                       /\ k < 11 => SemitoneRatio[k + 2] * d > n * PhaseOne
    IN  12 * octave + twelfth

\* Seconds are counted in microseconds.
Second == 10 ^ 6

\* _start = None
NoStart == -1

\* max_size as Sample.__init__ defaults it
MaxSize == 4096

\* A setter that returned, and one that raised e, with the voice as the
\* call left it.
Done(v) == [voice |-> v, ret |-> "None"]
Failed(v, e) == [voice |-> v, ret |-> e]

\* A decoded ".wav" file: what synthwaveform.from_wav returns for its
\* path.  file = None is NoFile.
File(path, waveform, sample_rate) ==
    [path |-> path, waveform |-> waveform, sample_rate |-> sample_rate]

NoFile == File("None", NoWaveform, 0)

\* _update_root that multiplies the note's frequency as it stands
\* (mutant of the below)
Sample_update_root_Compounding(v) ==
    [v EXCEPT !.note.frequency =
        Pow2Scale(@, v.source_tune + v.loop_tune)]

\* Sample._update_root
Sample_update_root(v) ==
    LET o == Oscillator_update_root(v)
    IN  [o EXCEPT !.note.frequency =
            Pow2Scale(@, v.source_tune + v.loop_tune)]

\* Sample._update_source_root.  1 / 0.0 raises; what was assigned before
\* stays assigned.
Sample_update_source_root(v) ==
    IF v.note.waveform.present
    THEN LET r == fftfreq(v.note.waveform, v.sample_rate)
             v1 == [v EXCEPT !.root = r.value]
             cycle_duration == Second \div r.value
             source_duration ==
                 (v.note.waveform.len * Second) \div v.sample_rate
         IN  IF r.err # "" THEN Failed(v, r.err)
             ELSE IF r.value = 0 THEN Failed(v1, "ZeroDivisionError")
             ELSE Done(Sample_update_root(
                      [v1 EXCEPT
                          !.cycle_duration = cycle_duration,
                          !.source_duration = source_duration,
                          !.source_tune =
                              Log2Twelfths(cycle_duration,
                                           source_duration)]))
    ELSE Done(Sample_update_root(
             [v EXCEPT !.root = v.desired_frequency,
                       !.cycle_duration = Second \div v.desired_frequency,
                       !.source_duration = 0,
                       !.source_tune = 0]))

\* Sample.sample_rate (setter)
Sample_set_sample_rate(v, value) ==
    Sample_update_source_root([v EXCEPT !.sample_rate = value])

\* Oscillator.waveform (setter), which Sample inherits
Sample_set_waveform(v, value) == Done(Oscillator_set_waveform(v, value))

\* file.setter that hands the decoded buffer on as it is
\* (mutant of the below)
Sample_set_file_Unchecked(v, value) ==
    IF value = NoFile
    THEN Sample_update_source_root(
             [v EXCEPT !.file = "None", !.note.waveform = NoWaveform])
    ELSE LET o1 == Sample_set_sample_rate(v, value.sample_rate)
         IN  IF o1.ret # "None" THEN o1
             ELSE Sample_update_source_root(
                      Oscillator_set_waveform(o1.voice, value.waveform))

\* Sample.file (setter).  The tuple assignment assigns sample_rate
\* through its setter before normalize() is called.
Sample_set_file(v, value) ==
    IF value = NoFile
    THEN Sample_update_source_root(
             [v EXCEPT !.file = "None", !.note.waveform = NoWaveform])
    ELSE LET o1 == Sample_set_sample_rate(v, value.sample_rate)
             n == normalize(value.waveform)
         IN  IF o1.ret # "None" THEN o1
             ELSE IF n.err # "" THEN Failed(o1.voice, n.err)
             ELSE Sample_update_source_root(
                      Oscillator_set_waveform(o1.voice, n.value))

\* Sample.__init__ with file=None: the Oscillator's fields, and the
\* Sample's.  _file is assigned by the file setter.
Sample_init(looping) ==
    Sample_set_file(
        [class |-> "Sample",
         looping |-> looping,
         sample_rate |-> SampleRate,
         sample_tune |-> 0,
         loop_tune |-> 0,
         start |-> NoStart,
         desired_frequency |-> Root,
         max_size |-> MaxSize,
         file |-> "unset",
         cycle_duration |-> 0,
         source_duration |-> 0,
         source_tune |-> 0] @@ Oscillator_init,
        NoFile).voice

\* Oscillator.coarse_tune (setter) on a Sample: self._update_root() is
\* Sample._update_root
Sample_set_coarse_tune(v, value) ==
    Done(Sample_update_root([v EXCEPT !.coarse_tune = value]))

\* Oscillator.fine_tune (setter) on a Sample
Sample_set_fine_tune(v, value) ==
    Done(Sample_update_root([v EXCEPT !.fine_tune = value]))

\* waveform_loop.setter that takes the ratio of the region to the
\* buffer  (mutant of the below)
Sample_set_waveform_loop_Inverse(v, value) ==
    LET v1 == Oscillator_set_waveform_loop_(v, value)
        length == v1.note.waveform_loop_end - v1.note.waveform_loop_start
        sample_length == v1.note.waveform.len
    IN  IF ~(v1.note.waveform.present /\ v1.note.waveform.len > 0)
        THEN Done(v1)
        ELSE IF length < 2 THEN Done(v1)
        ELSE Done(Sample_update_root(
                 [v1 EXCEPT !.loop_tune =
                     IF length # sample_length
                     THEN Log2Twelfths(length, sample_length)
                     ELSE 0]))

\* Sample.waveform_loop (setter).  "not waveform" holds for None and for
\* an empty buffer.
Sample_set_waveform_loop(v, value) ==
    LET v1 == Oscillator_set_waveform_loop_(v, value)
        length == v1.note.waveform_loop_end - v1.note.waveform_loop_start
        sample_length == v1.note.waveform.len
    IN  IF ~(v1.note.waveform.present /\ v1.note.waveform.len > 0)
        THEN Done(v1)
        ELSE IF length < 2 THEN Done(v1)
        ELSE Done(Sample_update_root(
                 [v1 EXCEPT !.loop_tune =
                     IF length # sample_length
                     THEN Log2Twelfths(sample_length, length)
                     ELSE 0]))

\* note.bend.value: the sum of the glide Lerp, the vibrato LFO and the
\* pitch bend Lerp, of which the glide is modelled; in twelfths of an
\* octave.
Sample_bend_value(v) == v.freq_lerp.out

\* Sample.duration, in microseconds
Sample_duration(v) ==
    (Pow2Scale(v.source_duration, -Sample_bend_value(v)) * v.root)
        \div v.desired_frequency

\* press() that takes the timestamp whether the voice loops or not
\* (mutant of the below)
Sample_press_AlwaysStamped(v, notenum, velocity, t) ==
    LET o == Voice_press(v, notenum, velocity)
        v1 == [o.voice EXCEPT
                  !.freq_lerp =
                      Lerp_set_value(@, GlideTarget(notenum)
                                          + Log2Twelfths(Root, v.root))]
        v2 == [v1 EXCEPT !.filter_envelope = AREnvelope_press(@)]
        pressed == [o EXCEPT !.voice = v2,
                             !.log = @ \o <<"frequency",
                                            "filter_envelope.press">>]
    IN  IF ~v.note.waveform.present
        THEN Outcome(v, "False", 0, 0, 0, 0)
        ELSE IF o.ret = "False" THEN o
        ELSE IF v.root = 0
        THEN [o EXCEPT !.ret = "ZeroDivisionError"]
        ELSE [pressed EXCEPT !.voice.start = t]

\* press() that presses the Oscillator before it looks at the waveform
\* (mutant of the below)
Sample_press_BeforeCheck(v, notenum, velocity, t) ==
    LET o == Voice_press(v, notenum, velocity)
        v1 == [o.voice EXCEPT
                  !.freq_lerp =
                      Lerp_set_value(@, GlideTarget(notenum)
                                          + Log2Twelfths(Root, v.root))]
        v2 == [v1 EXCEPT !.filter_envelope = AREnvelope_press(@)]
        pressed == [o EXCEPT !.voice = v2,
                             !.log = @ \o <<"frequency",
                                            "filter_envelope.press">>]
    IN  IF o.ret = "False" THEN o
        ELSE IF v.root = 0
        THEN [o EXCEPT !.ret = "ZeroDivisionError"]
        ELSE IF ~v.note.waveform.present
        THEN [pressed EXCEPT !.ret = "False"]
        ELSE IF ~v.looping
        THEN [pressed EXCEPT !.voice.start = t]
        ELSE pressed

\* Sample.press at time t.  Oscillator.press, which it calls, sets the
\* glide target to log2(midi_to_hz(notenum) / _root) for the root the
\* Sample detected; for a root of 0 the division raises.
Sample_press(v, notenum, velocity, t) ==
    LET o == Voice_press(v, notenum, velocity)
        v1 == [o.voice EXCEPT
                  !.freq_lerp =
                      Lerp_set_value(@, GlideTarget(notenum)
                                          + Log2Twelfths(Root, v.root))]
        v2 == [v1 EXCEPT !.filter_envelope = AREnvelope_press(@)]
        pressed == [o EXCEPT !.voice = v2,
                             !.log = @ \o <<"frequency",
                                            "filter_envelope.press">>]
    IN  IF ~v.note.waveform.present
        THEN Outcome(v, "False", 0, 0, 0, 0)
        ELSE IF o.ret = "False" THEN o
        ELSE IF v.root = 0
        THEN [o EXCEPT !.ret = "ZeroDivisionError"]
        ELSE IF ~v.looping
        THEN [pressed EXCEPT !.voice.start = t]
        ELSE pressed

\* update() that releases on every call once a press set the timestamp
\* (mutant of the below)
Sample_update_NoWait(v, t) ==
    LET o == Oscillator_update(v)
        r == Oscillator_release(o.voice)
    IN  IF ~v.looping /\ v.start # NoStart
        THEN [voice |-> [r.voice EXCEPT !.start = NoStart],
              ret |-> "None",
              presses |-> o.presses + r.presses,
              releases |-> o.releases + r.releases,
              biquads |-> o.biquads + r.biquads,
              assigns |-> o.assigns + r.assigns,
              log |-> o.log \o <<"release">> \o r.log]
        ELSE o

\* Sample.update at time t
Sample_update(v, t) ==
    LET o == Oscillator_update(v)
        r == Oscillator_release(o.voice)
    IN  IF ~v.looping /\ v.start # NoStart
               /\ t - v.start >= Sample_duration(o.voice)
        THEN [voice |-> [r.voice EXCEPT !.start = NoStart],
              ret |-> "None",
              presses |-> o.presses + r.presses,
              releases |-> o.releases + r.releases,
              biquads |-> o.biquads + r.biquads,
              assigns |-> o.assigns + r.assigns,
              log |-> o.log \o <<"release">> \o r.log]
        ELSE o

---------------------------------------------------------------------------
(* A LerpBlockInput on its own *)

\* The durations given to a Lerp: those above and a negative one.
LerpDurations == Durations \cup {-BlockMs}

LerpInit ==
    /\ \E r \in LerpDurations :
           /\ lerp = LerpBlockInput_init(r, 0)
           /\ call = Called("lerp.init", <<r>>, "None")
    /\ env = AREnvelope_init(0, 0, 0)
    /\ voice = Oscillator_init
    /\ synth = NoRequests
    /\ elapsed = 0
    /\ now = 0

LerpAssignValue ==
    \E v \in Targets :
        /\ lerp' = Lerp_set_value(lerp, v)
        /\ call' = Called("lerp.value", <<v>>, "None")
        /\ elapsed' = 0
        /\ UNCHANGED <<env, voice, synth, now>>

LerpAssignRate ==
    \E d \in LerpDurations :
        /\ lerp' = Lerp_set_rate(lerp, d)
        /\ call' = Called("lerp.rate", <<d>>, "None")
        /\ UNCHANGED <<env, voice, synth, elapsed, now>>

LerpEvaluate ==
    /\ lerp' = Lerp_tick(lerp)
    /\ call' = Called("block", <<>>, "None")
    /\ elapsed' = Min(elapsed + BlockMs, MaxElapsed)
    /\ UNCHANGED <<env, voice, synth, now>>

LerpNext == LerpAssignValue \/ LerpAssignRate \/ LerpEvaluate

SpecLerp == LerpInit /\ [][LerpNext]_vars

\* The same Lerp when its rate is left as constructed.
RampNext == LerpAssignValue \/ LerpEvaluate

SpecRamp == LerpInit /\ [][RampNext]_vars

---------------------------------------------------------------------------
(* An AREnvelope on its own *)

EnvInit ==
    /\ \E at \in Durations, rt \in Durations, am \in Amounts :
           env = AREnvelope_init(at, rt, am)
    /\ lerp = LerpBlockInput_init(DefaultRate, 0)
    /\ voice = Oscillator_init
    /\ synth = NoRequests
    /\ call = NoCall
    /\ elapsed = 0
    /\ now = 0

EnvAssignAttackTime ==
    \E d \in Durations :
        /\ env' = AREnvelope_set_attack_time(env, d)
        /\ call' = Called("env.attack_time", <<d>>, "None")
        /\ UNCHANGED <<lerp, voice, synth, elapsed, now>>

EnvAssignReleaseTime ==
    \E d \in Durations :
        /\ env' = AREnvelope_set_release_time(env, d)
        /\ call' = Called("env.release_time", <<d>>, "None")
        /\ UNCHANGED <<lerp, voice, synth, elapsed, now>>

EnvAssignAmount ==
    \E v \in Amounts :
        /\ env' = AREnvelope_set_amount(env, v)
        /\ call' = Called("env.amount", <<v>>, "None")
        /\ UNCHANGED <<lerp, voice, synth, elapsed, now>>

EnvPress ==
    /\ env' = AREnvelope_press(env)
    /\ call' = Called("env.press", <<>>, "None")
    /\ UNCHANGED <<lerp, voice, synth, elapsed, now>>

EnvRelease ==
    /\ env' = AREnvelope_release(env)
    /\ call' = Called("env.release", <<>>, "None")
    /\ UNCHANGED <<lerp, voice, synth, elapsed, now>>

EnvEvaluate ==
    /\ env' = AREnvelope_tick(env)
    /\ call' = Called("block", <<>>, "None")
    /\ UNCHANGED <<lerp, voice, synth, elapsed, now>>

EnvNext ==
    \/ EnvAssignAttackTime
    \/ EnvAssignReleaseTime
    \/ EnvAssignAmount
    \/ EnvPress
    \/ EnvRelease
    \/ EnvEvaluate

SpecEnv == EnvInit /\ [][EnvNext]_vars

\* The same envelope when its amount is left as constructed.
EnvNextFixedAmount ==
    \/ EnvAssignAttackTime
    \/ EnvAssignReleaseTime
    \/ EnvPress
    \/ EnvRelease
    \/ EnvEvaluate

SpecEnvFixedAmount == EnvInit /\ [][EnvNextFixedAmount]_vars

\* The same envelope when it is never pressed.
EnvNextNeverPressed ==
    \/ EnvAssignAttackTime
    \/ EnvAssignReleaseTime
    \/ EnvAssignAmount
    \/ EnvRelease
    \/ EnvEvaluate

SpecEnvNeverPressed == EnvInit /\ [][EnvNextNeverPressed]_vars

---------------------------------------------------------------------------
(* An Oscillator voice *)

FullVelocity == [int |-> FALSE, v |-> PhaseOne]
Velocities ==
    {[int |-> TRUE, v |-> MidiVelocityMax],
     [int |-> TRUE, v |-> MidiVelocityMax \div 2],
     [int |-> FALSE, v |-> PhaseOne \div 4],
     [int |-> FALSE, v |-> (3 * PhaseOne) \div 2]}
Levels ==
    {-(PhaseOne \div 2), 0, PhaseOne \div 2, PhaseOne, (3 * PhaseOne) \div 2}
FilterTypes == {LOWPASS, HIGHPASS, BANDPASS}
FilterFrequencies == {-FilterSwing, FilterSwing, SampleRate}
FilterResonances == {0, 2 * PhaseOne}
FilterAmounts == {0, FilterSwing}
FilterDepths == {0, FilterSwing}

VoiceInit ==
    /\ voice = Oscillator_init
    /\ synth = NoRequests
    /\ lerp = LerpBlockInput_init(DefaultRate, 0)
    /\ env = AREnvelope_init(0, 0, 0)
    /\ call = NoCall
    /\ elapsed = 0
    /\ now = 0

PressWith(N, V) ==
    \E n \in N, v \in V :
        LET o == Oscillator_press(voice, n, v)
        IN  /\ voice' = o.voice
            /\ synth' = Requests(o)
            /\ call' = Called("press", <<n, IF v.int THEN 1 ELSE 0, v.v>>,
                               o.ret)
            /\ UNCHANGED <<lerp, env, elapsed, now>>

Press == PressWith(Notes, Velocities)

Release ==
    LET o == Oscillator_release(voice)
    IN  /\ voice' = o.voice
        /\ synth' = Requests(o)
        /\ call' = Called("release", <<>>, o.ret)
        /\ UNCHANGED <<lerp, env, elapsed, now>>

Update ==
    LET o == Oscillator_update(voice)
    IN  /\ voice' = o.voice
        /\ synth' = Requests(o)
        /\ call' = Called("update", <<>>, o.ret)
        /\ UNCHANGED <<lerp, env, elapsed, now>>

Evaluate ==
    \E x \in LfoValues(voice.filter_lfo.scale) :
        /\ voice' = Oscillator_tick(voice, x)
        /\ synth' = Requests(Quiet)
        /\ call' = Called("block", <<>>, "None")
        /\ UNCHANGED <<lerp, env, elapsed, now>>

AssignVelocityAmount ==
    \E x \in Levels :
        /\ voice' = Voice_set_velocity_amount(voice, x)
        /\ synth' = Requests(Quiet)
        /\ call' = Called("velocity_amount", <<x>>, "None")
        /\ UNCHANGED <<lerp, env, elapsed, now>>

AssignAttackLevel ==
    \E x \in Levels :
        /\ voice' = Oscillator_set_attack_level(voice, x)
        /\ synth' = Requests(Quiet)
        /\ call' = Called("attack_level", <<x>>, "None")
        /\ UNCHANGED <<lerp, env, elapsed, now>>

AssignFilterType ==
    \E x \in FilterTypes :
        LET o == Voice_set_filter_type(voice, x)
        IN  /\ voice' = o.voice
            /\ synth' = Requests(o)
            /\ call' = Called("filter_type", <<>>, o.ret)
            /\ UNCHANGED <<lerp, env, elapsed, now>>

AssignFilterFrequency ==
    \E x \in FilterFrequencies :
        LET o == Voice_set_filter_frequency(voice, x)
        IN  /\ voice' = o.voice
            /\ synth' = Requests(o)
            /\ call' = Called("filter_frequency", <<>>, o.ret)
            /\ UNCHANGED <<lerp, env, elapsed, now>>

AssignFilterResonance ==
    \E x \in FilterResonances :
        LET o == Voice_set_filter_resonance(voice, x)
        IN  /\ voice' = o.voice
            /\ synth' = Requests(o)
            /\ call' = Called("filter_resonance", <<>>, o.ret)
            /\ UNCHANGED <<lerp, env, elapsed, now>>

AssignFilterAmount ==
    \E x \in FilterAmounts :
        /\ voice' = Oscillator_set_filter_amount(voice, x)
        /\ synth' = Requests(Quiet)
        /\ call' = Called("filter_amount", <<>>, "None")
        /\ UNCHANGED <<lerp, env, elapsed, now>>

AssignFilterDepth ==
    \E x \in FilterDepths :
        /\ voice' = Oscillator_set_filter_depth(voice, x)
        /\ synth' = Requests(Quiet)
        /\ call' = Called("filter_depth", <<>>, "None")
        /\ UNCHANGED <<lerp, env, elapsed, now>>

AssignCoarseTune ==
    \E x \in (-MaxCoarse)..MaxCoarse :
        /\ voice' = Oscillator_set_coarse_tune(voice, x)
        /\ synth' = Requests(Quiet)
        /\ call' = Called("coarse_tune", <<x>>, "None")
        /\ UNCHANGED <<lerp, env, elapsed, now>>

AssignFineTune ==
    \E x \in (-MaxFine)..MaxFine :
        /\ voice' = Oscillator_set_fine_tune(voice, x)
        /\ synth' = Requests(Quiet)
        /\ call' = Called("fine_tune", <<x>>, "None")
        /\ UNCHANGED <<lerp, env, elapsed, now>>

\* Pressing, releasing and the loudness envelope.
Next ==
    \/ Press
    \/ Release
    \/ Update
    \/ Evaluate
    \/ AssignVelocityAmount
    \/ AssignAttackLevel

Spec == VoiceInit /\ [][Next]_vars

\* The filter: its setters, the filter envelope and LFO that move its
\* effective frequency, and update().
FilterPress == PressWith({1}, {FullVelocity})

FilterNext ==
    \/ FilterPress
    \/ Release
    \/ Update
    \/ Evaluate
    \/ AssignFilterType
    \/ AssignFilterFrequency
    \/ AssignFilterResonance
    \/ AssignFilterAmount
    \/ AssignFilterDepth

SpecFilter == VoiceInit /\ [][FilterNext]_vars

\* The tuning of the Oscillator.
TuneNext == AssignCoarseTune \/ AssignFineTune

SpecTune == VoiceInit /\ [][TuneNext]_vars

\* The waveform of the Oscillator and its loop region.
WaveLens == {0, 1, 2, 3, MaxWaveLen}

LoopWaveforms ==
    {NoWaveform} \cup {Waveform("int16", n, 1, 32767) : n \in WaveLens}

Fractions ==
    {-(PhaseOne \div 2), 0, PhaseOne \div 4, PhaseOne \div 2,
     (3 * PhaseOne) \div 4, PhaseOne, (3 * PhaseOne) \div 2}

AssignWaveform ==
    \E w \in LoopWaveforms :
        /\ voice' = Oscillator_set_waveform(voice, w)
        /\ synth' = Requests(Quiet)
        /\ call' = Called("waveform", <<w>>, "None")
        /\ UNCHANGED <<lerp, env, elapsed, now>>

AssignWaveformLoop ==
    \E start \in Fractions, end \in Fractions :
        /\ voice' = Oscillator_set_waveform_loop(voice, <<start, end>>)
        /\ synth' = Requests(Quiet)
        /\ call' = Called("waveform_loop", <<start, end>>, "None")
        /\ UNCHANGED <<lerp, env, elapsed, now>>

LoopNext == AssignWaveform \/ AssignWaveformLoop

SpecLoop == VoiceInit /\ [][LoopNext]_vars

---------------------------------------------------------------------------
(* A voice of either class: an Oscillator or a percussive voice *)

AnyVoiceInit ==
    /\ voice \in {Oscillator_init, Percussive_init}
    /\ synth = NoRequests
    /\ lerp = LerpBlockInput_init(DefaultRate, 0)
    /\ env = AREnvelope_init(0, 0, 0)
    /\ call = NoCall
    /\ elapsed = 0
    /\ now = 0

DrumPress ==
    \E v \in Velocities :
        LET o == Percussive_press(voice, v)
        IN  /\ voice.class = "Percussive"
            /\ voice' = o.voice
            /\ synth' = Requests(o)
            /\ call' = Called("drum.press", <<IF v.int THEN 1 ELSE 0, v.v>>,
                               o.ret)
            /\ UNCHANGED <<lerp, env, elapsed, now>>

DrumRelease ==
    LET o == Percussive_release(voice)
    IN  /\ voice.class = "Percussive"
        /\ voice' = o.voice
        /\ synth' = Requests(o)
        /\ call' = Called("drum.release", <<>>, o.ret)
        /\ UNCHANGED <<lerp, env, elapsed, now>>

DrumLevels == {-PhaseOne, 0, PhaseOne \div 2, PhaseOne}

DrumAssignAttackLevel ==
    \E x \in DrumLevels :
        /\ voice.class = "Percussive"
        /\ voice' = Percussive_set_attack_level(voice, x)
        /\ synth' = Requests(Quiet)
        /\ call' = Called("drum.attack_level", <<x>>, "None")
        /\ UNCHANGED <<lerp, env, elapsed, now>>

DrumEvaluate ==
    /\ voice.class = "Percussive"
    /\ voice' = Percussive_tick(voice)
    /\ synth' = Requests(Quiet)
    /\ call' = Called("block", <<>>, "None")
    /\ UNCHANGED <<lerp, env, elapsed, now>>

\* The setter of the base class, on a percussive voice.
DrumAssignVelocityAmount ==
    /\ voice.class = "Percussive"
    /\ AssignVelocityAmount

DrumNext ==
    \/ DrumPress
    \/ DrumRelease
    \/ DrumAssignAttackLevel
    \/ DrumEvaluate
    \/ DrumAssignVelocityAmount

\* A percussive voice on its own.
DrumInit ==
    /\ voice = Percussive_init
    /\ synth = NoRequests
    /\ lerp = LerpBlockInput_init(DefaultRate, 0)
    /\ env = AREnvelope_init(0, 0, 0)
    /\ call = NoCall
    /\ elapsed = 0
    /\ now = 0

SpecDrum == DrumInit /\ [][DrumNext]_vars

\* The calls of an Oscillator, on an Oscillator.
OscillatorNext ==
    /\ voice.class = "Oscillator"
    /\ (Next \/ AssignFilterType)

AnyVoiceNext == OscillatorNext \/ DrumNext

SpecAnyVoice == AnyVoiceInit /\ [][AnyVoiceNext]_vars

---------------------------------------------------------------------------
(* The numeric setters of an Oscillator *)

\* Times assigned to the loudness envelope: a negative one, none, and one
\* audio block.
EnvelopeTimes == {-BlockMs, 0, BlockMs}

AssignAttackTime ==
    \E x \in EnvelopeTimes :
        /\ voice' = Oscillator_set_attack_time(voice, x)
        /\ synth' = Requests(Quiet)
        /\ call' = Called("attack_time", <<x>>, "None")
        /\ UNCHANGED <<lerp, env, elapsed, now>>

AssignDecayTime ==
    \E x \in EnvelopeTimes :
        /\ voice' = Oscillator_set_decay_time(voice, x)
        /\ synth' = Requests(Quiet)
        /\ call' = Called("decay_time", <<x>>, "None")
        /\ UNCHANGED <<lerp, env, elapsed, now>>

AssignSustainLevel ==
    \E x \in Levels :
        /\ voice' = Oscillator_set_sustain_level(voice, x)
        /\ synth' = Requests(Quiet)
        /\ call' = Called("sustain_level", <<x>>, "None")
        /\ UNCHANGED <<lerp, env, elapsed, now>>

AssignReleaseTime ==
    \E x \in EnvelopeTimes :
        /\ voice' = Oscillator_set_release_time(voice, x)
        /\ synth' = Requests(Quiet)
        /\ call' = Called("release_time", <<x>>, "None")
        /\ UNCHANGED <<lerp, env, elapsed, now>>

ClampNext ==
    \/ AssignVelocityAmount
    \/ AssignFilterFrequency
    \/ AssignFilterResonance
    \/ AssignAttackTime
    \/ AssignAttackLevel
    \/ AssignDecayTime
    \/ AssignSustainLevel
    \/ AssignReleaseTime

SpecClamp == VoiceInit /\ [][ClampNext]_vars

---------------------------------------------------------------------------
(* The parameters of an Oscillator, assigned while it is pressed or not *)

\* The values the setters are given: each is another value than the one
\* of the constructor.
Half == PhaseOne \div 2
OneCycleWave == Waveform("int16", MaxWaveLen, 1, Int16Max)
SecondQuarter == <<PhaseOne \div 4, PhaseOne \div 2>>

\* The parameters the setters store.
Parameters(v) ==
    <<v.coarse_tune, v.fine_tune, v.freq_lerp.rate, v.bend_range, v.bend,
      v.note.vibrato.rate, v.note.vibrato.scale,
      v.note.amplitude.offset, v.note.amplitude.rate, v.note.amplitude.scale,
      v.note.panning.offset, v.note.panning.rate, v.note.panning.scale,
      v.filter_type, v.filter_frequency, v.filter_resonance,
      v.filter_envelope.attack_time, v.filter_envelope.amount,
      v.filter_envelope.release_time,
      v.filter_lfo.rate, v.filter_lfo.scale,
      v.attack_time, v.attack_level, v.decay_time, v.sustain_level,
      v.release_time, v.note.waveform, v.waveform_loop, v.velocity_amount>>

Constructed == Parameters(Oscillator_init)

\* The parameters of v that differ from the values of the constructor.
Assigned(v) ==
    LET p == Parameters(v)
    IN  {i \in 1..Len(p) : p[i] # Constructed[i]}

\* A voice is followed with at most MaxAssigned of its parameters
\* assigned: the others keep the values of the constructor.
FewAssigned(v) == Cardinality(Assigned(v)) <= MaxAssigned

\* A setter that asks nothing of the synthesizer and leaves the voice as v.
Assign(name, value, v) ==
    /\ FewAssigned(v)
    /\ voice' = v
    /\ synth' = Requests(Quiet)
    /\ call' = Called(name, <<value>>, "None")
    /\ UNCHANGED <<lerp, env, elapsed, now>>

\* A setter that ends in _update_filter(), with outcome o.
AssignFiltered(name, value, o) ==
    /\ FewAssigned(o.voice)
    /\ voice' = o.voice
    /\ synth' = Requests(o)
    /\ call' = Called(name, <<value>>, o.ret)
    /\ UNCHANGED <<lerp, env, elapsed, now>>

SetTuning ==
    \/ Assign("coarse_tune", 1,
             Oscillator_set_coarse_tune(voice, 1))
    \/ Assign("fine_tune", 7,
             Oscillator_set_fine_tune(voice, 7))

SetGlide ==
    \/ Assign("glide", BlockMs,
             Oscillator_set_glide(voice, BlockMs))

SetBend ==
    \/ Assign("bend_range", 12,
             Oscillator_set_bend_range(voice, 12))
    \/ Assign("bend", Half,
             Oscillator_set_bend(voice, Half))

SetVibrato ==
    \/ Assign("vibrato_rate", 2 * PhaseOne,
             Oscillator_set_vibrato_rate(voice, 2 * PhaseOne))
    \/ Assign("vibrato_depth", Half,
             Oscillator_set_vibrato_depth(voice, Half))

SetTremolo ==
    \/ Assign("amplitude", Half,
             Oscillator_set_amplitude(voice, Half))
    \/ Assign("tremolo_rate", 2 * PhaseOne,
             Oscillator_set_tremolo_rate(voice, 2 * PhaseOne))
    \/ Assign("tremolo_depth", Half,
             Oscillator_set_tremolo_depth(voice, Half))

SetPan ==
    \/ Assign("pan", Half,
             Oscillator_set_pan(voice, Half))
    \/ Assign("pan_rate", 2 * PhaseOne,
             Oscillator_set_pan_rate(voice, 2 * PhaseOne))
    \/ Assign("pan_depth", Half,
             Oscillator_set_pan_depth(voice, Half))

SetFilter ==
    \/ AssignFiltered("filter_type", HIGHPASS,
                     Voice_set_filter_type(voice, HIGHPASS))
    \/ AssignFiltered("filter_frequency", FilterSwing,
                     Voice_set_filter_frequency(voice, FilterSwing))
    \/ AssignFiltered("filter_resonance", PhaseOne,
                     Voice_set_filter_resonance(voice, PhaseOne))

SetFilterEnvelope ==
    \/ Assign("filter_attack_time", BlockMs,
             Oscillator_set_filter_attack_time(voice, BlockMs))
    \/ Assign("filter_amount", FilterSwing,
             Oscillator_set_filter_amount(voice, FilterSwing))
    \/ Assign("filter_release_time", BlockMs,
             Oscillator_set_filter_release_time(voice, BlockMs))

SetFilterLfo ==
    \/ Assign("filter_rate", 2 * PhaseOne,
             Oscillator_set_filter_rate(voice, 2 * PhaseOne))
    \/ Assign("filter_depth", FilterSwing,
             Oscillator_set_filter_depth(voice, FilterSwing))

SetEnvelope ==
    \/ Assign("attack_time", BlockMs,
             Oscillator_set_attack_time(voice, BlockMs))
    \/ Assign("attack_level", Half,
             Oscillator_set_attack_level(voice, Half))
    \/ Assign("decay_time", BlockMs,
             Oscillator_set_decay_time(voice, BlockMs))
    \/ Assign("sustain_level", Half,
             Oscillator_set_sustain_level(voice, Half))
    \/ Assign("release_time", BlockMs,
             Oscillator_set_release_time(voice, BlockMs))

SetLoop ==
    \/ Assign("waveform", OneCycleWave,
             Oscillator_set_waveform(voice, OneCycleWave))
    \/ Assign("waveform_loop", SecondQuarter,
             Oscillator_set_waveform_loop(voice, SecondQuarter))

SetVelocityAmount ==
    \/ Assign("velocity_amount", Half,
             Voice_set_velocity_amount(voice, Half))

\* One audio block, the ramp of the pitch bend included.
EvaluateBend ==
    \E x \in LfoValues(voice.filter_lfo.scale) :
        /\ voice' = Oscillator_tick_bend(voice, x)
        /\ synth' = Requests(Quiet)
        /\ call' = Called("block", <<>>, "None")
        /\ UNCHANGED <<lerp, env, elapsed, now>>

ParameterNext ==
    \/ FilterPress
    \/ Release
    \/ Update
    \/ EvaluateBend
    \/ SetTuning
    \/ SetGlide
    \/ SetBend
    \/ SetVibrato
    \/ SetTremolo
    \/ SetPan
    \/ SetFilter
    \/ SetFilterEnvelope
    \/ SetFilterLfo
    \/ SetEnvelope
    \/ SetLoop
    \/ SetVelocityAmount

SpecParameters == VoiceInit /\ [][ParameterNext]_vars

---------------------------------------------------------------------------

(* The length normalisation of fft() *)

BufferLengths == 2..MaxBufferLen

FftLengths == 1..MaxFftLength

\* A buffer of int16 samples and a length parameter, before fft() is
\* called with them.
FftInit ==
    /\ \E len \in BufferLengths, length \in FftLengths :
           call = [op |-> "input", arg |-> <<len, length>>,
                   ret |-> ReturnedNone]
    /\ voice = Oscillator_init
    /\ synth = NoRequests
    /\ lerp = LerpBlockInput_init(DefaultRate, 0)
    /\ env = AREnvelope_init(0, 0, 0)
    /\ elapsed = 0
    /\ now = 0

\* fft(data, length=length) up to the call of the spectrum routine: ret is
\* the length of the buffer handed to it, or None when fft() returns
\* before it.
NormaliseLength ==
    LET len == call.arg[1]
        length == call.arg[2]
    IN  /\ call.op = "input"
        /\ call' = [op |-> "fft", arg |-> call.arg,
                    ret |-> IF TrimmedLength(len, length) < 2
                            THEN ReturnedNone
                            ELSE Returned(AnalysedLength(len, length))]
        /\ UNCHANGED <<lerp, env, voice, synth, elapsed, now>>

FftNext == NormaliseLength

SpecFftLength == FftInit /\ [][FftNext]_vars

---------------------------------------------------------------------------

(* A Sample voice *)

\* Sample rates of the files and of the sample_rate setter.
SampleRates == {SlowRate, SampleRate}

\* Buffers: one sample; a single cycle of a sine; two cycles, quiet and
\* at full level; three cycles in twice the length; half the length; and
\* buffers of unsigned 16 bit and of floating point samples.
OneSample == Waveform("int16", 1, 0, Int16Max)
OneCycle == Waveform("int16", MaxWaveLen, 1, Int16Max)
TwoCycles == Waveform("int16", MaxWaveLen, 2, Int16Max)
QuietTwoCycles == Waveform("int16", MaxWaveLen, 2, Int16Max \div 2)
ThreeCycles == Waveform("int16", 2 * MaxWaveLen, 3, Int16Max)
HalfLength == Waveform("int16", MaxWaveLen \div 2, 1, Int16Max)
Unsigned == Waveform("uint16", MaxWaveLen, 2, Int16Max)
Floating == Waveform("float", MaxWaveLen, 2, 1)

Buffers ==
    {NoWaveform, OneSample, OneCycle, TwoCycles, ThreeCycles, HalfLength,
     Unsigned, Floating}

Files ==
    {NoFile,
     File("/two.wav", QuietTwoCycles, SlowRate),
     File("/three.wav", ThreeCycles, SampleRate),
     File("/one.wav", OneCycle, SampleRate),
     File("/short.wav", OneSample, SampleRate),
     File("/unsigned.wav", Unsigned, SlowRate)}

SampleInit ==
    /\ voice = Sample_init(TRUE)
    /\ synth = NoRequests
    /\ lerp = LerpBlockInput_init(DefaultRate, 0)
    /\ env = AREnvelope_init(0, 0, 0)
    /\ call = NoCall
    /\ elapsed = 0
    /\ now = 0

AssignFileFrom(F) ==
    \E f \in F :
        LET o == Sample_set_file(voice, f)
        IN  /\ voice' = o.voice
            /\ synth' = Requests(Quiet)
            /\ call' = Called("file", <<f>>, o.ret)
            /\ UNCHANGED <<lerp, env, elapsed, now>>

SampleAssignFile == AssignFileFrom(Files)

SampleAssignWaveform ==
    \E w \in Buffers :
        LET o == Sample_set_waveform(voice, w)
        IN  /\ voice' = o.voice
            /\ synth' = Requests(Quiet)
            /\ call' = Called("waveform", <<w>>, o.ret)
            /\ UNCHANGED <<lerp, env, elapsed, now>>

SampleAssignSampleRate ==
    \E x \in SampleRates :
        LET o == Sample_set_sample_rate(voice, x)
        IN  /\ voice' = o.voice
            /\ synth' = Requests(Quiet)
            /\ call' = Called("sample_rate", <<x>>, o.ret)
            /\ UNCHANGED <<lerp, env, elapsed, now>>

LoopFractions == {0, PhaseOne \div 2, PhaseOne}

SampleAssignWaveformLoop ==
    \E start \in LoopFractions, end \in LoopFractions :
        LET o == Sample_set_waveform_loop(voice, <<start, end>>)
        IN  /\ voice' = o.voice
            /\ synth' = Requests(Quiet)
            /\ call' = Called("waveform_loop", <<start, end>>, o.ret)
            /\ UNCHANGED <<lerp, env, elapsed, now>>

SampleAssignCoarseTune ==
    \E x \in {0, 1} :
        LET o == Sample_set_coarse_tune(voice, x)
        IN  /\ voice' = o.voice
            /\ synth' = Requests(Quiet)
            /\ call' = Called("coarse_tune", <<x>>, o.ret)
            /\ UNCHANGED <<lerp, env, elapsed, now>>

SampleAssignFineTune ==
    \E x \in {0, 7} :
        LET o == Sample_set_fine_tune(voice, x)
        IN  /\ voice' = o.voice
            /\ synth' = Requests(Quiet)
            /\ call' = Called("fine_tune", <<x>>, o.ret)
            /\ UNCHANGED <<lerp, env, elapsed, now>>

\* The file of the Sample, its loop region and its tuning.
\* (Files of int16 samples that hold a cycle or more, and None.)
TuneFiles ==
    {f \in Files : f.waveform.dtype # "uint16" /\ f.waveform.len # 1}

TuneAssignFile == AssignFileFrom(TuneFiles)

SampleNext ==
    \/ TuneAssignFile
    \/ SampleAssignSampleRate
    \/ SampleAssignWaveformLoop
    \/ SampleAssignCoarseTune
    \/ SampleAssignFineTune

SpecSample == SampleInit /\ [][SampleNext]_vars

\* The buffer of the Sample, assigned as a file or as a waveform, and
\* what is derived from it.
BufferNext ==
    \/ SampleAssignFile
    \/ SampleAssignWaveform
    \/ SampleAssignSampleRate

SpecSampleBuffer == SampleInit /\ [][BufferNext]_vars

\* Playing a Sample: a file is loaded or not, the voice is pressed,
\* released and updated while the clock and the engine run.
PlayInit ==
    /\ voice \in {Sample_init(looping) : looping \in BOOLEAN}
    /\ synth = NoRequests
    /\ lerp = LerpBlockInput_init(DefaultRate, 0)
    /\ env = AREnvelope_init(0, 0, 0)
    /\ call = NoCall
    /\ elapsed = 0
    /\ now = 0

PlayFiles == {NoFile, File("/two.wav", QuietTwoCycles, SlowRate)}

PlayNotes == {0, 69, 81}

PlayAssignFile == AssignFileFrom(PlayFiles)

SamplePress ==
    \E n \in PlayNotes :
        LET o == Sample_press(voice, n, FullVelocity, now)
        IN  /\ voice' = o.voice
            /\ synth' = Requests(o)
            /\ call' = Called("press", <<n, 0, FullVelocity.v>>, o.ret)
            /\ UNCHANGED <<lerp, env, elapsed, now>>

SampleRelease ==
    LET o == Oscillator_release(voice)
    IN  /\ voice' = o.voice
        /\ synth' = Requests(o)
        /\ call' = Called("release", <<>>, o.ret)
        /\ UNCHANGED <<lerp, env, elapsed, now>>

SampleUpdate ==
    LET o == Sample_update(voice, now)
    IN  /\ voice' = o.voice
        /\ synth' = Requests(o)
        /\ call' = Called("update", <<>>, o.ret)
        /\ UNCHANGED <<lerp, env, elapsed, now>>

SampleEvaluate ==
    /\ voice' = Oscillator_tick(voice, 0)
    /\ synth' = Requests(Quiet)
    /\ call' = Called("block", <<>>, "None")
    /\ UNCHANGED <<lerp, env, elapsed, now>>

Advance ==
    /\ now < MaxClock * ClockStep
    /\ now' = now + ClockStep
    /\ synth' = Requests(Quiet)
    /\ call' = Called("clock", <<>>, "None")
    /\ UNCHANGED <<lerp, env, voice, elapsed>>

PlayNext ==
    \/ PlayAssignFile
    \/ SamplePress
    \/ SampleRelease
    \/ SampleUpdate
    \/ SampleEvaluate
    \/ Advance

SpecPlay == PlayInit /\ [][PlayNext]_vars

---------------------------------------------------------------------------
(* Claims *)

\* The velocity argument recorded in call.arg = <<notenum, is_int, value>>,
\* as a fraction of PhaseOne.
ArgVelocity(arg) ==
    IF arg[2] = 1 THEN (arg[3] * PhaseOne) \div MidiVelocityMax ELSE arg[3]



\* C1: press(n, v) returns false if and only if n is the note a pressed
\* voice holds; otherwise it stores n, asks the synthesizer once to play
\* and returns true; when it returns false the note number is unchanged
\* and the synthesizer is not asked to play.
C1_PressFalseIffHeld ==
    [][call'.op = "press" =>
        LET n == call'.arg[1]
        IN  /\ (call'.ret = "False") <=> (voice.notenum > 0 /\ n = voice.notenum)
            /\ call'.ret = "True" =>
                   (voice'.notenum = n /\ synth'.presses = 1)
            /\ call'.ret = "False" =>
                   (voice'.notenum = voice.notenum /\ synth'.presses = 0)
      ]_vars

\* C2: after every press(n, v), also one that returns false, the stored
\* velocity is v and the note's envelope is the one built from v: its
\* attack and sustain levels are the voice's levels times
\* 1 - (1 - clamp(v, 0, 1)) * velocity_amount.
C2_PressUpdatesEnvelope ==
    call.op = "press" =>
        LET v == ArgVelocity(call.arg)
            mod == PhaseOne
                   - ((PhaseOne - Min(Max(v, 0), PhaseOne))
                          * voice.velocity_amount) \div PhaseOne
        IN  /\ voice.velocity = v
            /\ voice.note.envelope =
                   [attack_time |-> voice.attack_time,
                    attack_level |-> (mod * voice.attack_level) \div PhaseOne,
                    decay_time |-> voice.decay_time,
                    sustain_level |-> (mod * voice.sustain_level) \div PhaseOne,
                    release_time |-> voice.release_time]

\* A press of the note already held returned false and left a loudness
\* envelope that is scaled down by its velocity.
C2_Witness ==
    /\ call.op = "press"
    /\ call.ret = "False"
    /\ voice.notenum > 0
    /\ ArgVelocity(call.arg) = PhaseOne \div 4
    /\ voice.velocity_amount = PhaseOne
    /\ voice.attack_level = PhaseOne
    /\ voice.note.envelope.attack_level = PhaseOne \div 4

\* C3: release() on a voice that is not pressed returns false, changes no
\* field and asks nothing of the synthesizer; on a pressed voice it sets
\* the note number to 0, asks the synthesizer once to stop the notes and
\* returns true; a release() right after a successful one returns false.
C3_ReleaseOnlyWhenPressed ==
    [][call'.op = "release" =>
        /\ voice.notenum <= 0 =>
               /\ call'.ret = "False"
               /\ voice' = voice
               /\ synth'.releases = 0
               /\ synth'.presses = 0
               /\ synth'.playing = synth.playing
        /\ voice.notenum > 0 =>
               /\ call'.ret = "True"
               /\ voice'.notenum = 0
               /\ synth'.releases = 1
        /\ (call.op = "release" /\ call.ret = "True") => call'.ret = "False"
      ]_vars

\* A release() that followed a release: it returned false and the voice
\* stays released.
C3_Witness ==
    /\ call.op = "release"
    /\ call.ret = "False"
    /\ voice.notenum = 0
    /\ ~synth.playing
    /\ voice.freq_lerp.b # 0

FilterOps == {"filter_type", "filter_frequency", "filter_resonance", "update"}

\* C4: a filter is constructed, and the note's filter assigned, only in a
\* filter setter or update() in which the tuple (type, effective
\* frequency, resonance) differs from the tuple applied last, and at most
\* one filter is constructed per call; a filter_frequency assignment that
\* directly follows one with the same clamped value constructs none.
C4_RebuildOnlyOnChange ==
    [][/\ (synth'.biquads > 0 \/ synth'.assigns > 0) =>
              /\ call'.op \in FilterOps
              /\ voice.filter_buffer #
                     <<voice'.filter_type,
                       Max(voice'.filter_frequency
                               + voice'.filter_envelope.lerp.out
                               + voice'.filter_lfo.value,
                           MinFilterFrequency),
                       voice'.filter_resonance>>
              /\ synth'.biquads <= 1
       /\ (/\ call.op = "filter_frequency"
           /\ call'.op = "filter_frequency"
           /\ voice'.filter_frequency = voice.filter_frequency) =>
              (synth'.biquads = 0 /\ synth'.assigns = 0)
      ]_vars

\* A filter_frequency assignment that found the tuple unchanged: a filter
\* is in place and none was constructed.
C4_Witness ==
    /\ call.op = "filter_frequency"
    /\ synth.biquads = 0
    /\ synth.assigns = 0
    /\ voice.note.filter # NoFilter
    /\ voice.filter_buffer[1] = voice.filter_type

\* C5: after every filter setter and every update(), the note has no
\* filter when the type is low-pass and the effective frequency is at or
\* above sample_rate/2, or the type is high-pass and the effective
\* frequency is at or below 50 Hz; otherwise it has the filter of that
\* type built from the effective frequency and the resonance.
C5_FilterBypass ==
    call.op \in FilterOps =>
        LET f == Max(voice.filter_frequency + voice.filter_envelope.lerp.out
                         + voice.filter_lfo.value,
                     MinFilterFrequency)
            q == voice.filter_resonance
        IN  \/ /\ voice.filter_type = LOWPASS
               /\ f >= SampleRate \div 2
               /\ voice.note.filter = NoFilter
            \/ /\ voice.filter_type = LOWPASS
               /\ f < SampleRate \div 2
               /\ voice.note.filter = Biquad("low_pass", f, q)
            \/ /\ voice.filter_type = HIGHPASS
               /\ f <= 50
               /\ voice.note.filter = NoFilter
            \/ /\ voice.filter_type = HIGHPASS
               /\ f > 50
               /\ voice.note.filter = Biquad("high_pass", f, q)
            \/ /\ voice.filter_type = BANDPASS
               /\ voice.note.filter = Biquad("band_pass", f, q)

\* update() took a filter away: a high-pass filter whose effective
\* frequency the filter LFO pulled down to the floor.
C5_Witness ==
    /\ call.op = "update"
    /\ synth.assigns = 1
    /\ voice.filter_type = HIGHPASS
    /\ voice.filter_frequency > HighPassBypass
    /\ voice.filter_lfo.value < 0
    /\ voice.note.filter = NoFilter

\* C6: assigning a target to a LerpBlockInput makes the current output the
\* interpolation start and the assigned value the end and puts the ramp
\* position back to 0, on every assignment; the rate (and the output, until
\* the next block) are unchanged.
C6_AssignRestartsRamp ==
    [][call'.op = "lerp.value" =>
        /\ lerp'.a = lerp.out
        /\ lerp'.b = call'.arg[1]
        /\ lerp'.phase = 0
        /\ lerp'.rate = lerp.rate
        /\ lerp'.out = lerp.out
      ]_vars

\* An assignment of the value the Lerp already put out, made after a ramp
\* to another value had run: start and end are that value, the position 0.
C6_Witness ==
    /\ call.op = "lerp.value"
    /\ call.arg[1] = lerp.out
    /\ lerp.a = lerp.out
    /\ lerp.b = lerp.out
    /\ lerp.phase = 0
    /\ lerp.out = MaxTarget - 1

\* C7: the output of a LerpBlockInput always lies between the
\* interpolation start and end.
C7_OutputBetweenEnds ==
    /\ Min(lerp.a, lerp.b) <= lerp.out
    /\ lerp.out <= Max(lerp.a, lerp.b)

\* A block evaluated in the middle of a downward ramp: the output is
\* strictly between the start and the end.
C7_Witness ==
    /\ call.op = "block"
    /\ 0 < lerp.phase
    /\ lerp.phase < PhaseOne
    /\ lerp.b < lerp.out
    /\ lerp.out < lerp.a

\* A block evaluated after a ramp had completed leaves the envelope as it
\* is, at its target.
Sustains ==
    (call'.op = "block" /\ env.lerp.phase = PhaseOne) =>
        (env'.lerp = env.lerp /\ env'.lerp.out = env.lerp.b
         /\ env'.pressed = env.pressed)

\* C8 as stated: press() sets pressed and ramps from the current output to
\* amount at rate 1/attack_time, release() clears pressed and ramps from
\* the current output to 0 at rate 1/release_time, in every phase; a
\* completed ramp stays at its target.
C8_RateIsReciprocalOfTime ==
    [][/\ call'.op = "env.press" =>
              /\ env'.pressed
              /\ env'.lerp.a = env.lerp.out
              /\ env'.lerp.b = env.amount
              /\ env'.lerp.phase = 0
              /\ env'.lerp.rate * env.attack_time = PhaseOne
       /\ call'.op = "env.release" =>
              /\ ~env'.pressed
              /\ env'.lerp.a = env.lerp.out
              /\ env'.lerp.b = 0
              /\ env'.lerp.phase = 0
              /\ env'.lerp.rate * env.release_time = PhaseOne
       /\ Sustains
      ]_vars

\* C8, amended: the same, with the rate 1/max(attack_time, 0.001) and
\* 1/max(release_time, 0.001).
C8_PressReleaseStartRamps ==
    [][/\ call'.op = "env.press" =>
              /\ env'.pressed
              /\ env'.lerp.a = env.lerp.out
              /\ env'.lerp.b = env.amount
              /\ env'.lerp.phase = 0
              /\ env'.lerp.rate = PhaseOne \div Max(env.attack_time, 1)
              /\ env'.lerp.out = env.lerp.out
       /\ call'.op = "env.release" =>
              /\ ~env'.pressed
              /\ env'.lerp.a = env.lerp.out
              /\ env'.lerp.b = 0
              /\ env'.lerp.phase = 0
              /\ env'.lerp.rate = PhaseOne \div Max(env.release_time, 1)
              /\ env'.lerp.out = env.lerp.out
       /\ Sustains
      ]_vars

\* press() while a ramp is part-way: the attack ramp starts from an output
\* strictly between 0 and amount.
C8_Witness ==
    /\ call.op = "env.press"
    /\ env.pressed
    /\ env.lerp.phase = 0
    /\ env.lerp.b = env.amount
    /\ 0 < env.lerp.a
    /\ env.lerp.a < env.amount
    /\ env.attack_time > 0

\* C9: with the amount left as constructed, release() during the attack
\* starts the release ramp at once from the partially attacked output, and
\* the output never leaves the range between 0 and amount.
C9_ReleaseMidAttack ==
    /\ [](/\ Min(0, env.amount) <= env.lerp.out
          /\ env.lerp.out <= Max(0, env.amount))
    /\ [][call'.op = "env.release" =>
             /\ ~env'.pressed
             /\ env'.lerp.a = env.lerp.out
             /\ env'.lerp.out = env.lerp.out
             /\ env'.lerp.b = 0
             /\ env'.lerp.phase = 0
         ]_vars

\* release() before the attack completed: the release ramp starts from an
\* output strictly between 0 and amount.
C9_Witness ==
    /\ call.op = "env.release"
    /\ ~env.pressed
    /\ env.lerp.phase = 0
    /\ env.lerp.b = 0
    /\ 0 < env.lerp.a
    /\ env.lerp.a < env.amount
    /\ env.lerp.out = env.lerp.a

\* C10: assigning attack_time while pressed, or release_time while
\* released, sets the rate of the ramp in flight and leaves its start, end,
\* position and output alone; assigning attack_time while released, or
\* release_time while pressed, leaves the whole ramp alone and only stores
\* the time.
C10_TimeRepacesMatchingPhase ==
    [][/\ call'.op = "env.attack_time" =>
              /\ env'.attack_time = call'.arg[1]
              /\ env'.pressed = env.pressed
              /\ env'.release_time = env.release_time
              /\ env'.amount = env.amount
              /\ env'.lerp =
                     IF env.pressed
                     THEN [env.lerp EXCEPT
                              !.rate = PhaseOne \div Max(call'.arg[1], 1)]
                     ELSE env.lerp
       /\ call'.op = "env.release_time" =>
              /\ env'.release_time = call'.arg[1]
              /\ env'.pressed = env.pressed
              /\ env'.attack_time = env.attack_time
              /\ env'.amount = env.amount
              /\ env'.lerp =
                     IF ~env.pressed
                     THEN [env.lerp EXCEPT
                              !.rate = PhaseOne \div Max(call'.arg[1], 1)]
                     ELSE env.lerp
      ]_vars

\* attack_time assigned in the middle of an attack: the ramp goes on from
\* where it is, at the new rate.
C10_Witness ==
    /\ call.op = "env.attack_time"
    /\ env.pressed
    /\ 0 < env.lerp.phase
    /\ env.lerp.phase < PhaseOne
    /\ env.lerp.rate = PhaseOne \div (4 * BlockMs)
    /\ env.lerp.phase = PhaseOne \div 2

\* C11: assigning amount while the envelope is pressed stores it and
\* restarts the ramp from the current output to the new amount, leaving
\* the rate (and the pressed state and the two times) as they are;
\* assigning it while released only stores it, and the next press() ramps
\* to the stored amount.
C11_AmountRedirectsWhilePressed ==
    [][/\ call'.op = "env.amount" =>
              /\ env'.amount = call'.arg[1]
              /\ env'.pressed = env.pressed
              /\ env'.attack_time = env.attack_time
              /\ env'.release_time = env.release_time
              /\ env'.lerp.rate = env.lerp.rate
              /\ env'.lerp.out = env.lerp.out
              /\ env.pressed =>
                     /\ env'.lerp.a = env.lerp.out
                     /\ env'.lerp.b = call'.arg[1]
                     /\ env'.lerp.phase = 0
              /\ ~env.pressed => env'.lerp = env.lerp
       /\ call'.op = "env.press" => env'.lerp.b = env.amount
      ]_vars

\* amount assigned in the middle of an attack: the ramp now runs from the
\* partially attacked output to the new amount, at the attack's rate.
C11_Witness ==
    /\ call.op = "env.amount"
    /\ env.pressed
    /\ env.amount = -MaxAmount
    /\ env.lerp.b = -MaxAmount
    /\ 0 < env.lerp.a
    /\ env.lerp.a < MaxAmount
    /\ env.lerp.phase = 0
    /\ env.lerp.rate = PhaseOne \div (2 * BlockMs)

\* C12: an envelope that is never pressed puts out 0, whatever times and
\* amounts are assigned, however often it is released and however many
\* blocks are evaluated.
C12_ZeroUntilPressed ==
    env.lerp.out = 0

\* A never-pressed envelope with a non-zero amount assigned, released,
\* whose ramp has run to its end: the output is 0.
C12_Witness ==
    /\ call.op = "block"
    /\ ~env.pressed
    /\ env.amount = MaxAmount
    /\ env.lerp.phase = PhaseOne
    /\ env.lerp.rate = PhaseOne \div (4 * BlockMs)
    /\ env.lerp.out = 0

\* C13: the notes and the modulation blocks of a voice are those its
\* constructor created: no press, release, update, setter or audio block
\* changes what the notes and blocks properties hold; the calls only
\* change fields of these objects.
C13_NotesAndBlocksKeepIdentity ==
    [][/\ Voice_notes(voice') = Voice_notes(voice)
       /\ Voice_blocks(voice') = Voice_blocks(voice)
      ]_vars

\* An Oscillator that was pressed softly and released: the envelope and
\* the filter envelope of its note were changed, and the note and the
\* blocks are those of the constructor.
C13_Witness ==
    /\ voice.class = "Oscillator"
    /\ call.op = "release"
    /\ call.ret = "True"
    /\ voice.note.envelope.attack_level < PhaseOne \div 2
    /\ voice.note.envelope # Oscillator_init.note.envelope
    /\ voice.filter_envelope.lerp.rate # Oscillator_init.filter_envelope.lerp.rate
    /\ Voice_notes(voice) = Voice_notes(Oscillator_init)
    /\ Voice_blocks(voice) = Voice_blocks(Oscillator_init)

C15_VelocityResponse ==
    LET m == Voice_get_velocity_mod(voice)
        cv == Min(Max(voice.velocity, 0), PhaseOne)
    IN  /\ m = PhaseOne - ((PhaseOne - cv) * voice.velocity_amount)
                              \div PhaseOne
        /\ voice.velocity_amount = 0 => m = PhaseOne
        /\ voice.velocity_amount = PhaseOne => m = cv
        /\ 0 <= m
        /\ m <= PhaseOne

\* A press at velocity 1/4 with velocity_amount 1/2: the multiplier is
\* 5/8, and so is the attack level of the note's envelope.
C15_Witness ==
    /\ call.op = "press"
    /\ voice.velocity = PhaseOne \div 4
    /\ voice.velocity_amount = PhaseOne \div 2
    /\ Voice_get_velocity_mod(voice) = (5 * PhaseOne) \div 8
    /\ voice.attack_level = PhaseOne
    /\ voice.note.envelope.attack_level = (5 * PhaseOne) \div 8

\* C16: after every operation the note's envelope is the one built from
\* the voice's current attack_time, attack_level, decay_time, sustain_level
\* and release_time, with the two levels scaled by the current velocity
\* multiplier.
C16_EnvelopeAlwaysCurrent ==
    LET m == Voice_get_velocity_mod(voice)
    IN  voice.note.envelope =
            [attack_time |-> voice.attack_time,
             attack_level |-> (m * voice.attack_level) \div PhaseOne,
             decay_time |-> voice.decay_time,
             sustain_level |-> (m * voice.sustain_level) \div PhaseOne,
             release_time |-> voice.release_time]

\* C17: with a duration d > 0 configured as the Lerp's rate, the output
\* read right after a target is assigned is the output from before the
\* assignment, and once blocks amounting to d or more have been evaluated
\* since the assignment the output is the target.
C17_TargetReachedAfterDuration ==
    /\ [](\A d \in LerpDurations :
             (d > 0 /\ lerp.rate = RateOf(d) /\ elapsed >= d) =>
                 lerp.out = lerp.b)
    /\ [][call'.op = "lerp.value" =>
             /\ elapsed' = 0
             /\ lerp'.out = lerp.out
             /\ lerp'.a = lerp.out
         ]_vars

\* A block evaluated exactly 4 block lengths after the target was assigned
\* to a Lerp of that duration: the output went from one end of the range
\* to the other.
C17_Witness ==
    /\ call.op = "block"
    /\ lerp.rate = RateOf(4 * BlockMs)
    /\ elapsed = 4 * BlockMs
    /\ lerp.a = -MaxTarget
    /\ lerp.b = MaxTarget
    /\ lerp.out = MaxTarget

\* C18: after construction or assignment with any duration, also 0 or a
\* negative one, the rate is 1 / max(duration, 1 ms) and positive, and the
\* duration read back is max(duration, 1 ms), which is positive.
C18_DurationClamped ==
    /\ lerp.rate > 0
    /\ Lerp_get_rate(lerp) > 0
    /\ call.op \in {"lerp.init", "lerp.rate"} =>
           /\ lerp.rate = PhaseOne \div Max(call.arg[1], MinDuration)
           /\ Lerp_get_rate(lerp) = Max(call.arg[1], MinDuration)

\* A negative duration assigned while a ramp is under way: the duration
\* read back is 1 ms.
C18_Witness ==
    /\ call.op = "lerp.rate"
    /\ call.arg[1] < 0
    /\ Lerp_get_rate(lerp) = MinDuration
    /\ 0 < lerp.phase
    /\ lerp.phase < PhaseOne

\* C19: a press() that starts a new note has the synthesizer play, then
\* sets the glide target from the note number, then presses the filter
\* envelope; a release() of a pressed voice has the synthesizer stop the
\* note, then releases the filter envelope.  A press() or release() that
\* returns false touches neither the glide nor the filter envelope.
C19_PressReleaseOrder ==
    [][/\ (call'.op = "press" /\ call'.ret = "True") =>
              /\ synth'.log = <<"synthesizer.press", "frequency",
                                "filter_envelope.press">>
              /\ voice'.freq_lerp.a = voice.freq_lerp.out
              /\ voice'.freq_lerp.b = GlideTarget(call'.arg[1])
              /\ voice'.freq_lerp.phase = 0
              /\ voice'.filter_envelope.pressed
              /\ voice'.filter_envelope.lerp.b = voice.filter_envelope.amount
              /\ voice'.filter_envelope.lerp.phase = 0
       /\ (call'.op = "release" /\ call'.ret = "True") =>
              /\ synth'.log = <<"synthesizer.release",
                                "filter_envelope.release">>
              /\ ~voice'.filter_envelope.pressed
              /\ voice'.filter_envelope.lerp.b = 0
              /\ voice'.filter_envelope.lerp.phase = 0
              /\ voice'.freq_lerp = voice.freq_lerp
       /\ (call'.op \in {"press", "release"} /\ call'.ret = "False") =>
              /\ synth'.log = <<>>
              /\ voice'.freq_lerp = voice.freq_lerp
              /\ voice'.filter_envelope = voice.filter_envelope
      ]_vars

\* A press of another note once the glide to the first had arrived: the
\* glide now runs from the first note to the second and the filter
\* envelope is in its attack.
C19_Witness ==
    /\ call.op = "press"
    /\ call.ret = "True"
    /\ synth.log = <<"synthesizer.press", "frequency", "filter_envelope.press">>
    /\ voice.freq_lerp.a = GlideTarget(1)
    /\ voice.freq_lerp.b = GlideTarget(MaxNote)
    /\ voice.freq_lerp.phase = 0
    /\ voice.filter_envelope.pressed

\* C20: after any coarse_tune and fine_tune assignments the note's
\* frequency is root * 2^(coarse_tune + fine_tune/12): a whole number of
\* octaves doubles or halves the root that many times, coarse_tune = 1 with
\* fine_tune = 0 gives 880 Hz for the root 440 Hz, and fine_tune = 12
\* gives what one more octave of coarse_tune gives.
C20_TunedFrequency ==
    LET c == voice.coarse_tune
        f == voice.fine_tune
        hz == voice.note.frequency
    IN  /\ hz = TunedFrequency(voice.root, c, f)
        /\ (f = 0 /\ c >= 0) => hz = voice.root * 2 ^ c
        /\ (f = 0 /\ c < 0) => hz * 2 ^ (-c) = voice.root
        /\ (c = 1 /\ f = 0 /\ voice.root = 440) => hz = 880
        /\ f = 12 => hz = TunedFrequency(voice.root, c + 1, 0)
        /\ (f = 12 /\ c = 0) => hz = 2 * voice.root

\* fine_tune = 12 assigned with coarse_tune = 0: the note is at 880 Hz.
C20_Witness ==
    /\ call.op = "fine_tune"
    /\ voice.fine_tune = 12
    /\ voice.coarse_tune = 0
    /\ voice.note.frequency = 880

\* C21: after any pair is assigned as waveform_loop the stored fractions
\* satisfy 0 <= start <= end <= 1; with a waveform of length L >= 2 loaded
\* the note's loop indices satisfy 0 <= loopStart <= L - 2 and
\* loopStart + 2 <= loopEnd <= L; with no waveform, or one shorter than 2
\* samples, the assignment leaves the note's loop indices as they were.
C21_LoopRegionClamped ==
    /\ [](/\ 0 <= voice.waveform_loop[1]
          /\ voice.waveform_loop[1] <= voice.waveform_loop[2]
          /\ voice.waveform_loop[2] <= PhaseOne
          /\ (call.op = "waveform_loop"
                  /\ voice.note.waveform.present
                  /\ voice.note.waveform.len >= 2)
              => LET L == voice.note.waveform.len
                 IN  /\ 0 <= voice.note.waveform_loop_start
                     /\ voice.note.waveform_loop_start <= L - 2
                     /\ voice.note.waveform_loop_start + 2
                            <= voice.note.waveform_loop_end
                     /\ voice.note.waveform_loop_end <= L)
    /\ [][(call'.op = "waveform_loop"
              /\ ~(voice.note.waveform.present
                      /\ voice.note.waveform.len >= 2))
           => /\ voice'.note.waveform_loop_start
                    = voice.note.waveform_loop_start
              /\ voice'.note.waveform_loop_end
                    = voice.note.waveform_loop_end]_vars

\* A loop that starts at the end of a buffer of MaxWaveLen samples was
\* assigned: the window was moved back to the last two samples.
C21_Witness ==
    /\ call.op = "waveform_loop"
    /\ call.arg = <<PhaseOne, PhaseOne>>
    /\ voice.waveform_loop = <<PhaseOne, PhaseOne>>
    /\ voice.note.waveform.len = MaxWaveLen
    /\ voice.note.waveform_loop_start = MaxWaveLen - 2
    /\ voice.note.waveform_loop_end = MaxWaveLen

\* Whether the last call made the call named in its course.
Logged(name) == \E i \in DOMAIN synth.log : synth.log[i] = name

\* update() finds the sample played to its end: the voice does not loop,
\* a press set the start timestamp, and the time since then is at least
\* the duration.
Expired ==
    /\ ~voice.looping
    /\ voice.start # NoStart
    /\ now - voice.start >= Sample_duration(voice)

\* C22: on a non-looping Sample a press() that returns true sets the start
\* timestamp to the time of the press, and nothing but such a press and
\* the releasing update() changes it; an update() at which the time since
\* that press is at least the duration calls release() (the synthesizer
\* is asked to stop a voice that is pressed) and clears the timestamp;
\* an update() before that calls no release() and leaves note number and
\* timestamp as they are.
C22_ReleasedWhenPlayed ==
    [][/\ (call'.op = "press" /\ call'.ret = "True" /\ ~voice.looping)
            => voice'.start = now
       /\ (call'.op = "update" /\ Expired)
            => /\ voice'.start = NoStart
               /\ Logged("release")'
               /\ voice'.notenum = IF Voice_pressed(voice) THEN 0
                                   ELSE voice.notenum
               /\ synth'.releases = IF Voice_pressed(voice) THEN 1 ELSE 0
       /\ (call'.op = "update" /\ ~Expired)
            => /\ voice'.start = voice.start
               /\ voice'.notenum = voice.notenum
               /\ ~Logged("release")'
               /\ synth'.releases = 0
       /\ voice'.start # voice.start
            => \/ call'.op = "press" /\ call'.ret = "True"
               \/ call'.op = "update" /\ Expired]_vars

\* An update() released a pressed voice: the clock had passed the
\* duration of the sample since the press.
C22_Witness ==
    /\ call.op = "update"
    /\ Logged("release")
    /\ synth.releases = 1
    /\ ~synth.playing
    /\ voice.start = NoStart
    /\ voice.notenum = 0
    /\ now >= 2 * ClockStep

C24_RootFollowsBuffer ==
    LET r == fftfreq(voice.note.waveform, voice.sample_rate)
    IN  (voice.note.waveform.present /\ r.err = "" /\ r.value > 0)
            => /\ voice.root = r.value
               /\ voice.cycle_duration = Second \div r.value
               /\ voice.source_duration =
                      (voice.note.waveform.len * Second)
                          \div voice.sample_rate
               /\ voice.source_tune =
                      Log2Twelfths(voice.cycle_duration,
                                   voice.source_duration)

\* The note's frequency as the stored root, tuning, source tune and loop
\* tune give it: root * 2^(coarse_tune + fine_tune / 12), times
\* 2^(sourceTune + loopTune), once.
TunedOnce ==
    voice.note.frequency =
        Pow2Scale(TunedFrequency(voice.root, voice.coarse_tune,
                                 voice.fine_tune),
                  voice.source_tune + voice.loop_tune)

C26_LoopTuneFromRegion ==
    [][(call'.op = "waveform_loop" /\ voice.note.waveform.present
            /\ voice.note.waveform.len > 0)
          => LET L == voice'.note.waveform.len
                 region == voice'.note.waveform_loop_end
                               - voice'.note.waveform_loop_start
             IN  voice'.loop_tune =
                     IF region = L \/ region < 2 THEN 0
                     ELSE Log2Twelfths(L, region)]_vars

\* The first half of a buffer of MaxWaveLen samples was looped: the loop
\* tune is one octave; and the buffer is still loaded.
C26_Witness ==
    /\ call.op = "waveform_loop"
    /\ call.arg = <<0, PhaseOne \div 2>>
    /\ voice.note.waveform.len = MaxWaveLen
    /\ voice.note.waveform_loop_start = 0
    /\ voice.note.waveform_loop_end = MaxWaveLen \div 2
    /\ voice.loop_tune = 12

\* C27: on a Sample whose buffer holds two cycles, assigning a loop region
\* that covers exactly half of the buffer yields a loopTune close to 0
\* (within a semitone), not an octave up or down.
C27_HalfLoopKeepsPitch ==
    (/\ call.op = "waveform_loop"
     /\ voice.note.waveform.present
     /\ voice.note.waveform.cycles = 2
     /\ 2 * (voice.note.waveform_loop_end - voice.note.waveform_loop_start)
            = voice.note.waveform.len)
        => (-1 <= voice.loop_tune /\ voice.loop_tune <= 1)

\* C28: spectral analysis of a buffer shorter than 2 samples signals "no
\* pitch detected" (fft() hands back None), and the root update of the
\* Sample that follows does not fail and falls back to the desired
\* frequency as root.
C28_ShortBufferFallsBack ==
    (/\ call.op \in {"file", "sample_rate"}
     /\ voice.note.waveform.present
     /\ voice.note.waveform.len < 2)
        => /\ fft(voice.note.waveform, FftLength) = ReturnedNone
           /\ call.ret = "None"
           /\ voice.root = voice.desired_frequency
           /\ voice.source_tune = 0

\* The error normalize() and fft() raise for a buffer they do not take.
InvalidDataType == "Invalid data type"

\* C29: normalize() raises the invalid-data-type error exactly for a
\* buffer whose samples are not int16, fft() exactly for one whose samples
\* are neither int16 nor uint16.  The error reaches the caller and ends
\* the operation: a file whose samples are not int16 is never installed
\* as the waveform, a sample_rate assignment over a buffer fft() rejects
\* changes nothing but the sample rate; and these operations raise the
\* error only for a buffer of such a type.
C29_InvalidDataTypeRaised ==
    /\ [](voice.note.waveform.present
            => /\ (normalize(voice.note.waveform).err = InvalidDataType)
                     <=> voice.note.waveform.dtype # "int16"
               /\ (fft(voice.note.waveform, FftLength).err
                        = InvalidDataType)
                     <=> voice.note.waveform.dtype
                             \notin {"int16", "uint16"})
    /\ [][/\ (call'.op = "sample_rate" /\ voice.note.waveform.present)
               => /\ (call'.ret = InvalidDataType)
                        <=> voice.note.waveform.dtype
                                \notin {"int16", "uint16"}
                  /\ call'.ret = InvalidDataType
                        => voice' = [voice EXCEPT
                                        !.sample_rate = call'.arg[1]]
          /\ (call'.op = "file" /\ call'.arg[1] # NoFile)
               => /\ call'.arg[1].waveform.dtype # "int16"
                        => /\ call'.ret # "None"
                           /\ voice'.note.waveform = voice.note.waveform
                  /\ (call'.arg[1].waveform.dtype # "int16"
                          /\ Sample_set_sample_rate(
                                 voice, call'.arg[1].sample_rate).ret
                                = "None")
                        => call'.ret = InvalidDataType
                  /\ call'.ret = InvalidDataType
                        => \/ call'.arg[1].waveform.dtype # "int16"
                           \/ voice.note.waveform.dtype
                                  \notin {"int16", "uint16", "none"}]_vars

\* A file of unsigned samples was assigned while a file of int16 samples
\* was loaded: the assignment raised, and the loaded buffer stayed.
C29_Witness ==
    /\ call.op = "file"
    /\ call.arg[1].waveform.dtype = "uint16"
    /\ call.ret = InvalidDataType
    /\ voice.note.waveform.present
    /\ voice.note.waveform.dtype = "int16"
    /\ voice.note.waveform.len = 2 * MaxWaveLen
    /\ voice.sample_rate = SlowRate

\* C30: pitch detection reports the frequency of the peak bin: after the
\* root of a Sample was updated over a buffer of analysed length L whose
\* spectrum peaks at bin k, the update has succeeded and the detected root
\* is within Sr / L of k * Sr / L; so for a single cycle (k = 1) it is
\* about Sr / L.
C30_RootAtPeakBin ==
    (/\ call.op \in {"file", "sample_rate"}
     /\ voice.note.waveform.present
     /\ voice.note.waveform.dtype \in {"int16", "uint16"}
     /\ voice.note.waveform.len >= 2)
        => LET L == AnalysedLength(voice.note.waveform.len, FftLength)
               k == PeakBin(voice.note.waveform, L)
               Sr == voice.sample_rate
           IN  /\ call.ret \in {"None", InvalidDataType}
               /\ voice.root * L - k * Sr <= Sr
               /\ k * Sr - voice.root * L <= Sr + L

\* The names of the setters that clamp.
ClampedSetters ==
    {"velocity_amount", "filter_frequency", "filter_resonance",
     "attack_time", "attack_level", "decay_time", "sustain_level",
     "release_time"}

\* C31: after any sequence of assignments of arbitrary numbers,
\* velocity_amount is in [0, 1], filter_resonance is at least 1/sqrt(2),
\* filter_frequency is in [0, sample_rate / 2], the Oscillator's
\* attack_time, decay_time and release_time are at least 0 and its
\* attack_level and sustain_level in [0, 1]; and none of the assignments
\* fails (each returns, having built an envelope with levels in [0, 1] and
\* times of 0 or more).
C31_SettersClamp ==
    /\ 0 <= voice.velocity_amount /\ voice.velocity_amount <= PhaseOne
    /\ voice.filter_resonance >= MinResonance
    /\ 0 <= voice.filter_frequency /\ voice.filter_frequency <= Nyquist
    /\ voice.attack_time >= 0
    /\ voice.decay_time >= 0
    /\ voice.release_time >= 0
    /\ 0 <= voice.attack_level /\ voice.attack_level <= PhaseOne
    /\ 0 <= voice.sustain_level /\ voice.sustain_level <= PhaseOne
    /\ call.op \in ClampedSetters
         => /\ call.ret = "None"
            /\ voice.note.envelope.attack_time >= 0
            /\ voice.note.envelope.decay_time >= 0
            /\ voice.note.envelope.release_time >= 0
            /\ 0 <= voice.note.envelope.attack_level
            /\ voice.note.envelope.attack_level <= PhaseOne
            /\ 0 <= voice.note.envelope.sustain_level
            /\ voice.note.envelope.sustain_level <= PhaseOne

\* Numbers below and above the ranges were assigned, a negative decay
\* time last: every field sits at the end of its range.
C31_Witness ==
    /\ call.op = "decay_time"
    /\ call.arg = <<-BlockMs>>
    /\ voice.decay_time = 0
    /\ voice.attack_time = BlockMs
    /\ voice.velocity_amount = 0
    /\ voice.attack_level = PhaseOne
    /\ voice.sustain_level = 0
    /\ voice.filter_resonance = 2 * PhaseOne
    /\ voice.filter_frequency = 0

StopThenStart == <<"synthesizer.release", "synthesizer.press">>

\* C32: every press() of a percussive voice returns True, asks the
\* synthesizer to start the notes (after asking it to stop them when the
\* voice was playing) and retriggers the LFO; release() returns False and
\* leaves the voice and the synthesizer as they were.
C32_SingleShot ==
    [][/\ call'.op = "drum.press" =>
              /\ call'.ret = "True"
              /\ synth'.presses = 1
              /\ synth'.playing
              /\ synth'.log = (IF Voice_pressed(voice) THEN StopThenStart
                               ELSE <<"synthesizer.press">>)
              /\ Voice_pressed(voice')
              /\ voice'.lfo.phase = 0
       /\ call'.op = "drum.release" =>
              /\ call'.ret = "False"
              /\ voice' = voice
              /\ synth'.playing = synth.playing
              /\ synth'.log = <<>>]_vars

\* a press while the notes of an earlier press are playing
C32_Witness ==
    /\ call.op = "drum.press"
    /\ call.ret = "True"
    /\ synth.log = StopThenStart
    /\ synth.playing
    /\ voice.lfo.phase = 0

\* C33: for a buffer of at least 2 samples and any length parameter, the
\* buffer fft() hands to the spectrum routine has a length that is a power
\* of two, at most the length of the input and at most the length
\* parameter.
C33_LengthBounded ==
    (call.op = "fft" /\ ~call.ret.none) =>
        /\ IsPowerOfTwo(call.ret.value)
        /\ call.ret.value <= call.arg[1]
        /\ call.ret.value <= call.arg[2]

\* C34: whenever press(n, v) returns true, for every note number n and 0
\* among them, the voice is pressed afterwards, and the release() that
\* follows while the synthesizer plays the notes returns true and asks the
\* synthesizer to stop them.
C34_StartedCanBeStopped ==
    [][/\ (call'.op = "press" /\ call'.ret = "True") =>
              Voice_pressed(voice')
       /\ (call'.op = "release" /\ synth.playing) =>
              (call'.ret = "True" /\ synth'.releases = 1)]_vars

\* C35: the filter envelope is pressed exactly when the voice holds a
\* note.
C35_FilterEnvelopeFollowsVoice ==
    voice.filter_envelope.pressed = Voice_pressed(voice)

\* C36: every filter the voice has the synthesizer construct has a
\* frequency above 0 and at most half the sample rate, and a resonance of
\* at least 0.7071067811865475.
C36_FilterWithinRange ==
    voice.note.filter # NoFilter =>
        /\ 0 < voice.note.filter.frequency
        /\ voice.note.filter.frequency <= Nyquist
        /\ voice.note.filter.Q >= MinResonance

\* C37: a Sample constructed with looping = true never has a start
\* timestamp, and update() on it calls no release(): note number and
\* pressed state stay as they were and the synthesizer is not asked to
\* stop, whatever the clock shows.
C37_LoopingNeverReleased ==
    /\ [](voice.looping => voice.start = NoStart)
    /\ [][(call'.op = "update" /\ voice.looping) =>
              /\ voice'.looping
              /\ voice'.notenum = voice.notenum
              /\ Voice_pressed(voice') = Voice_pressed(voice)
              /\ ~Logged("release")'
              /\ synth'.releases = 0
              /\ synth'.playing = synth.playing]_vars

\* update() on a looping Sample that is pressed, with the clock past the
\* duration of the sample
C37_Witness ==
    /\ voice.looping
    /\ call.op = "update"
    /\ Voice_pressed(voice)
    /\ synth.playing
    /\ voice.note.waveform.present
    /\ now >= Sample_duration(voice)
    /\ now = MaxClock * ClockStep

\* C38: after an assignment to file that went through, reading file gives
\* the value assigned: the path, or None.
C38_FileRoundTrips ==
    (call.op = "file" /\ call.ret = "None") =>
        voice.file = call.arg[1].path

ParameterSetters ==
    {"coarse_tune", "fine_tune", "glide", "bend_range", "bend",
     "vibrato_rate", "vibrato_depth", "amplitude", "tremolo_rate",
     "tremolo_depth", "pan", "pan_rate", "pan_depth", "filter_type",
     "filter_frequency", "filter_resonance", "filter_attack_time",
     "filter_amount", "filter_release_time", "filter_rate", "filter_depth",
     "attack_time", "attack_level", "decay_time", "sustain_level",
     "release_time", "waveform", "waveform_loop", "velocity_amount"}

\* C39: no parameter setter of an Oscillator, on a pressed voice or not,
\* changes the note number or the pressed state (of the voice or of its
\* filter envelope) or asks the synthesizer to start or stop the notes;
\* update() changes nothing of the voice but the note's filter and the
\* filter cache, and asks for no start or stop either.
C39_SettersLeaveLifecycle ==
    [][/\ call'.op \in ParameterSetters =>
              /\ voice'.notenum = voice.notenum
              /\ Voice_pressed(voice') = Voice_pressed(voice)
              /\ voice'.filter_envelope.pressed
                     = voice.filter_envelope.pressed
              /\ synth'.presses = 0
              /\ synth'.releases = 0
              /\ synth'.playing = synth.playing
       /\ call'.op = "update" =>
              /\ voice' = [voice EXCEPT
                              !.filter_buffer = voice'.filter_buffer,
                              !.note.filter = voice'.note.filter]
              /\ synth'.presses = 0
              /\ synth'.releases = 0
              /\ synth'.playing = synth.playing]_vars

\* update() on a pressed voice built a low-pass filter below the cutoff,
\* at the bottom of the swing of the filter LFO whose depth was assigned.
C39_Witness ==
    /\ call.op = "update"
    /\ Voice_pressed(voice)
    /\ synth.playing
    /\ voice.filter_lfo.scale = FilterSwing
    /\ synth.biquads = 1
    /\ voice.note.filter = Biquad("low_pass", Nyquist - FilterSwing,
                                  MinResonance)

=============================================================================
